---- MODULE Spec2Model ----
(***************************************************************************)
(* A model of the Stratum V1 solo-mining pool: the pool core               *)
(* (src/src/core/pool.py: template fetch, job registry, share validation,  *)
(* block submission) and the Stratum server (src/src/core/                 *)
(* stratum_server.py: sessions, authorization dialog, job broadcaster).    *)
(*                                                                         *)
(* The program runs on one asyncio event loop: a task runs without         *)
(* interruption from one suspension point (an await that yields) to the    *)
(* next, so every action below is one such segment of one task.            *)
(*                                                                         *)
(* Conventions.  Python None is the empty tuple and a present value x is   *)
(* <<x>>.  A Python str is a sequence of one-character strings, so that    *)
(* parsing, formatting and concatenation are computed and not assumed.     *)
(* A byte string that is only hashed, reversed and compared is a term:     *)
(* <<"tx", i>>, <<"rev", b>>, <<"H", b>>, <<"cat", a, b>>.  An integer too *)
(* large for the checker (a 256-bit target or hash) is the sequence of its *)
(* base-256 digits, most significant first, without leading zeros.         *)
(***************************************************************************)
EXTENDS Integers, Sequences, FiniteSets, TLC

VARIABLES
    \* Pool (pool.py:13-41)
    jobs,              \* self.jobs: list of job dicts, oldest first
    current_block,     \* self.current_block: None or the last template taken
    current_job_id,    \* self.current_job_id
    pool_address,      \* config.get('POOL', 'address'): what the pool was
                       \* started with
    submitted_shares,  \* self.submitted_shares: the share keys seen
    worker_stats,      \* self.worker_stats: worker name -> counters
    blocks_found,      \* self.blocks_found
    submitted_blocks,  \* self.submitted_blocks
    \* the node
    submitblock_calls, \* submitblock RPCs the node has received
    \* StratumServer (stratum_server.py:12-25) and its connections
    clients,           \* self.clients: client id -> client dict
    client_order,      \* the insertion order of self.clients' keys
    pc,                \* where each session's task stands
    transport,         \* each connection: "open", "lost" (by the peer) or
                       \* "closed" (by the server)
    frames,            \* the lines written to each connection that is up
    \* broadcast_jobs task
    bc_pc,             \* "loop": asleep before the loop body; "iter": in a
                       \* drain inside the for loop over self.clients
    last_job_id,       \* its local last_job_id
    bc_size,           \* len(self.clients) when the for loop began
    bc_done,           \* the clients the for loop has passed
    bc_job,            \* its local current_job
    \* history and budgets of a run (not program state)
    insert_log,        \* job ids in the order distribute_job inserted them
    owed,              \* job id -> the sessions that were authorized and
                       \* connected when it was inserted, and still are
    bc_targets,        \* the sessions that were authorized and connected
                       \* when the running or last broadcast began, and
                       \* still are
    last_submit,       \* the last mining.submit: its input and outcome
    accept_log,        \* the (worker, job, extranonce2, ntime, nonce) of
                       \* every accepted share, in order
    job_cap,           \* the run fetches no template past this job id
    fetch_log,         \* the first fetches of the run: the node's answer
                       \* and the pool before and after
    fetch_cap,         \* the run logs this many fetches
    submit_budget,     \* mining.submit requests the run may still make
    miner_inputs,      \* the mining.submit parameters the run's miners send
    last_transactions, \* the latest mining.get_transactions: job and answer
    last_request,      \* None, or the latest request with an id: its session,
                       \* its method, the responses written to the session
                       \* before it, and whether process_message returned
    \* Pool.create_coinbase_tx
    coinbase_in,       \* the height, the reward, the script and the clock
    coinbase_out,      \* None, or the coinbase1 and coinbase2 built from them
    \* the clock
    now,               \* time.time(), in seconds since the start of the run
    clock_cap,         \* the run ends at this time
    \* connections
    connection_semaphore,  \* the free slots of self.connection_semaphore
    connection_limit,      \* self.max_connections as configured
    next_sweep,            \* when cleanup_inactive_clients' sleep ends
    \* shutdown
    accepting,         \* the listening socket is open
    sd_pc,             \* the shutdown task: "off", "iter" (in a drain of its
                       \* loop), "gather", "stopped" or "raised"
    sd_size,           \* the size of self.clients when its loop began
    sd_done,           \* the clients its loop has passed
    sd_at,             \* the client in whose drain it is suspended
    sd_targets         \* the sessions connected when shutdown began

poolVars == <<jobs, current_block, current_job_id, insert_log, fetch_log,
              pool_address>>
shareVars == <<submitted_shares, worker_stats, blocks_found, submitted_blocks,
               submitblock_calls>>
serverVars == <<clients, client_order, pc, transport, frames>>
bcVars == <<bc_pc, last_job_id, bc_size, bc_done, bc_job, bc_targets>>
submitVars == <<last_submit, accept_log, submit_budget, miner_inputs,
                last_transactions>>
timeVars == <<now, clock_cap>>
connVars == <<connection_semaphore, connection_limit, next_sweep>>
builderVars == <<coinbase_in, coinbase_out>>
sdVars == <<accepting, sd_pc, sd_size, sd_done, sd_at, sd_targets>>
vars == <<poolVars, shareVars, serverVars, bcVars, submitVars, owed, job_cap,
          fetch_cap, timeVars, connVars, sdVars, builderVars, last_request>>

----------------------------------------------------------------------------
(* Python values *)

None == <<>>
Some(x) == <<x>>

Last(s) == s[Len(s)]

RECURSIVE Reverse(_)
Reverse(s) == IF s = <<>> THEN <<>> ELSE Reverse(Tail(s)) \o <<Head(s)>>

Max(a, b) == IF a >= b THEN a ELSE b

Zeros(n) == [i \in 1..n |-> 0]

\* a digit sequence without its leading zeros
RECURSIVE StripZeros(_)
StripZeros(d) ==
    IF d # <<>> /\ Head(d) = 0 THEN StripZeros(Tail(d)) ELSE d

\* the digits of n >= 0 in the given base, most significant first (<<>> for 0)
RECURSIVE IntDigits(_, _)
IntDigits(n, base) ==
    IF n = 0 THEN <<>> ELSE Append(IntDigits(n \div base, base), n % base)

\* a <= b on digit sequences without leading zeros
RECURSIVE LeqLex(_, _)
LeqLex(a, b) ==
    IF a = <<>> THEN TRUE
    ELSE IF Head(a) # Head(b) THEN Head(a) < Head(b)
    ELSE LeqLex(Tail(a), Tail(b))

LeqDigits(a, b) ==
    IF Len(a) # Len(b) THEN Len(a) < Len(b) ELSE LeqLex(a, b)

\* digits * k and digits \div k for a small k > 0, in the given base
RECURSIVE MulRev(_, _, _, _)
MulRev(rev, k, base, carry) ==
    IF rev = <<>> THEN Reverse(IntDigits(carry, base))
    ELSE LET v == Head(rev) * k + carry
         IN  <<v % base>> \o MulRev(Tail(rev), k, base, v \div base)

MulDigits(d, k, base) == StripZeros(Reverse(MulRev(Reverse(d), k, base, 0)))

RECURSIVE DivLoop(_, _, _, _)
DivLoop(d, k, base, rem) ==
    IF d = <<>> THEN <<>>
    ELSE LET v == rem * base + Head(d)
         IN  <<v \div k>> \o DivLoop(Tail(d), k, base, v % k)

DivDigits(d, k, base) == StripZeros(DivLoop(d, k, base, 0))

----------------------------------------------------------------------------
(* Python str: hexadecimal text *)

HexChars ==
    <<"0", "1", "2", "3", "4", "5", "6", "7",
      "8", "9", "a", "b", "c", "d", "e", "f">>
UpperHexChars == <<"A", "B", "C", "D", "E", "F">>

\* the value of a hexadecimal character, -1 for any other character
NibbleOf(c) ==
    IF \E i \in 1..16 : HexChars[i] = c
      THEN (CHOOSE i \in 1..16 : HexChars[i] = c) - 1
    ELSE IF \E i \in 1..6 : UpperHexChars[i] = c
      THEN (CHOOSE i \in 1..6 : UpperHexChars[i] = c) + 9
    ELSE -1

IsHexText(s) == \A i \in 1..Len(s) : NibbleOf(s[i]) >= 0

\* int(s, 16): None for ValueError, else the value as base-16 digits.  The
\* optional 0x prefix is parsed; signs, blanks and underscores, which int()
\* also takes, are in no input set of the model.
int16(s) ==
    LET body == IF Len(s) >= 2 /\ s[1] = "0" /\ s[2] \in {"x", "X"}
                  THEN SubSeq(s, 3, Len(s)) ELSE s
    IN  IF body = <<>> \/ ~IsHexText(body) THEN None
        ELSE Some(StripZeros([i \in 1..Len(body) |-> NibbleOf(body[i])]))

\* bytes.fromhex(s): None for ValueError, else the bytes
fromhex(s) ==
    IF Len(s) % 2 # 0 \/ ~IsHexText(s) THEN None
    ELSE Some([i \in 1..(Len(s) \div 2) |->
                 16 * NibbleOf(s[2 * i - 1]) + NibbleOf(s[2 * i])])

\* format(n, '0<width>x')
FormatHex(n, width) ==
    LET d == IntDigits(n, 16)
    IN  [i \in 1..Max(width - Len(d), 0) |-> "0"]
        \o [i \in 1..Len(d) |-> HexChars[d[i] + 1]]

\* a | b on base-16 digit sequences
OrNibble(x, y) ==
    LET bit(v, k) == (v \div k) % 2
        or(k) == IF bit(x, k) = 1 \/ bit(y, k) = 1 THEN k ELSE 0
    IN  or(1) + or(2) + or(4) + or(8)

OrDigits(a, b) ==
    LET n == Max(Len(a), Len(b))
        pa == Zeros(n - Len(a)) \o a
        pb == Zeros(n - Len(b)) \o b
    IN  StripZeros([i \in 1..n |-> OrNibble(pa[i], pb[i])])

----------------------------------------------------------------------------
(* Targets: 256-bit integers as base-256 digits *)

\* bits_to_target(bits_hex) = mantissa * 2 ** (8 * (exponent - 3)); for an
\* exponent below 3 Python gives a float, and the integer part of it is
\* what a comparison with an integer hash sees
bits_to_target(bits_hex) ==
    LET d == int16(bits_hex)[1]
        nib == Zeros(Max(8 - Len(d), 0)) \o d
        low == SubSeq(nib, Len(nib) - 7, Len(nib))
        exponent == 16 * low[1] + low[2]
        mantissa == [i \in 1..3 |-> 16 * low[2 * i + 1] + low[2 * i + 2]]
    IN  IF exponent >= 3 THEN StripZeros(mantissa \o Zeros(exponent - 3))
        ELSE StripZeros(SubSeq(mantissa, 1, exponent))

\* difficulty_to_target(difficulty) for a difficulty num/den: the difficulties
\* of the model divide max_target with no rounding in Python's float division
difficulty_to_target(difficulty) ==
    LET num == difficulty[1]
        den == difficulty[2]
        max_target == bits_to_target(<<"1", "d", "0", "0", "f", "f", "f", "f">>)
    IN  IF num <= 0 THEN [i \in 1..32 |-> 255]
        ELSE LET target_value ==
                   DivDigits(MulDigits(max_target, den, 256), num, 256)
             IN  IF ~LeqDigits(target_value, max_target) THEN max_target
                 ELSE target_value

\* int.from_bytes(b, byteorder='little')
from_bytes_little(b) == StripZeros(Reverse(b))

----------------------------------------------------------------------------
(* The node: what getblocktemplate can answer *)

\* registry size kept by distribute_job
MaxJobs == 20

\* testnet alternates minimum-difficulty blocks (1d00ffff) with blocks at
\* the real difficulty (here 1b0404cb), depending on the block's timestamp
BitsMin == <<"1", "d", "0", "0", "f", "f", "f", "f">>
BitsReal == <<"1", "b", "0", "4", "0", "4", "c", "b">>

NodeTransactions(h) == [i \in 1..(h % 4) |-> <<"tx", i>>]

\* the template the node answers at height h (the fields the pool reads)
NodeTemplate(h) ==
    [ height            |-> h,
      previousblockhash |-> <<"block", h - 1>>,
      version           |-> 536870912,
      bits              |-> IF h % 2 = 0 THEN BitsMin ELSE BitsReal,
      curtime           |-> 1000 * h,
      coinbasevalue     |-> 5000,
      transactions      |-> NodeTransactions(h) ]

\* what one getblocktemplate call can give the pool: an error envelope, an
\* empty result, an exception of the HTTP client, or a template at the
\* height of the template the pool holds or at the next one (at height 100
\* when the pool holds none)
Responses(cb) ==
    { [kind |-> k, template |-> None] : k \in {"error", "empty", "raise"} }
    \cup { [kind |-> "result", template |-> Some(NodeTemplate(h))] :
             h \in IF cb = None THEN {100}
                   ELSE {cb[1].height, cb[1].height + 1} }

\* the template of a block at height h on another branch of the chain: the
\* block before it is not the one NodeTemplate(h) builds on
ForkTemplate(h) ==
    [NodeTemplate(h) EXCEPT !.previousblockhash = <<"fork", h - 1>>]

\* what one getblocktemplate call can give the pool when the node's chain
\* may reorganise: as Responses, and at the height of the template the pool
\* holds a template on the other branch
ForkResponses(cb) ==
    Responses(cb)
    \cup { [kind |-> "result", template |-> Some(ForkTemplate(cb[1].height))] :
             x \in IF cb = None THEN {} ELSE {cb} }

----------------------------------------------------------------------------
(* Hash and byte-string terms *)

\* data[::-1] on a byte string
Rev(b) == IF b[1] = "rev" THEN b[2] ELSE <<"rev", b>>

\* a + b on byte strings
Cat(a, b) == <<"cat", a, b>>

double_sha256(data) == <<"H", data>>

----------------------------------------------------------------------------
(* Job builder *)

RECURSIVE MerkleLoop(_, _, _)
MerkleLoop(level, index, branches) ==
    IF Len(level) <= 1 THEN branches
    ELSE LET lv == IF Len(level) % 2 # 0 THEN Append(level, Last(level))
                   ELSE level
             br == IF index % 2 = 0 /\ index + 1 < Len(lv)
                     THEN Append(branches, Rev(lv[index + 2]))
                   ELSE IF index % 2 = 1 /\ index - 1 >= 0
                     THEN Append(branches, Rev(lv[index]))
                   ELSE branches
             next_level == [k \in 1..(Len(lv) \div 2) |->
                              double_sha256(Cat(lv[2 * k - 1], lv[2 * k]))]
         IN  MerkleLoop(next_level, index \div 2, br)

calculate_merkle_branches(transactions) ==
    IF transactions = <<>> THEN <<>>
    ELSE MerkleLoop([i \in 1..Len(transactions) |-> Rev(transactions[i])],
                    0, <<>>)

\* the levels calculate_merkle_branches builds, to the last: a level of odd
\* length gets its last hash again, and the next level is the hashes of the
\* pairs
RECURSIVE MerkleLevels(_)
MerkleLevels(level) ==
    IF Len(level) <= 1 THEN level
    ELSE LET lv == IF Len(level) % 2 # 0 THEN Append(level, Last(level))
                   ELSE level
         IN  MerkleLevels([k \in 1..(Len(lv) \div 2) |->
                             double_sha256(Cat(lv[2 * k - 1], lv[2 * k]))])

\* validate_share's loop over job['merkle_branches']: bytes.fromhex(branch)
\* is the bytes the builder printed
RECURSIVE MerkleFold(_, _)
MerkleFold(merkle_root, branches) ==
    IF branches = <<>> THEN merkle_root
    ELSE MerkleFold(double_sha256(Cat(merkle_root, Head(branches))),
                    Tail(branches))

\* config.getint('STRATUM', 'difficulty', fallback=1), as numerator and
\* denominator
ConfigPoolDifficulty == <<1, 1>>

create_stratum_job(template, job_id) ==
    [ job_id          |-> job_id,
      prevhash        |-> template.previousblockhash,
      coinbase1       |-> <<"coinbase1", template.height>>,
      coinbase2       |-> <<"coinbase2", template.coinbasevalue>>,
      merkle_branches |-> calculate_merkle_branches(template.transactions),
      version         |-> template.version,
      nbits           |-> template.bits,
      ntime           |-> template.curtime,
      clean_jobs      |-> TRUE,
      template        |-> template,
      pool_difficulty |-> ConfigPoolDifficulty ]

----------------------------------------------------------------------------
(* The coinbase builder: bytes are the integers 0..255 *)

\* struct.pack("<H", n), ("<I", n) and ("<Q", n): n in width bytes, the least
\* significant first
RECURSIVE pack(_, _)
pack(n, width) ==
    IF width = 0 THEN <<>> ELSE <<n % 256>> \o pack(n \div 256, width - 1)

\* ser_number of create_coinbase_tx, for n below 2 ** 31
ser_number(n) ==
    IF n < 1 THEN <<n>>
    ELSE IF n <= 255 THEN <<1, n>>
    ELSE IF n <= 65535 THEN <<2>> \o pack(n, 2)
    ELSE <<3>> \o pack(n, 4)

\* encode_varint of create_coinbase_tx, for n below 2 ** 31
encode_varint(n) ==
    IF n < 253 THEN <<n>>
    ELSE IF n <= 65535 THEN <<253>> \o pack(n, 2)
    ELSE <<254>> \o pack(n, 4)

\* version, one input, the null previous output and its index, and the
\* place of the script length
scriptsig_header ==
    <<1, 0, 0, 0>> \o <<1>> \o Zeros(32) \o <<255, 255, 255, 255>> \o <<0>>

\* b"Kazumyon Mining Pool"
flags ==
    <<75, 97, 122, 117, 109, 121, 111, 110, 32, 77, 105, 110, 105, 110, 103,
      32, 80, 111, 111, 108>>

\* b"\x0aKazumyon"
pool_sig == <<10, 75, 97, 122, 117, 109, 121, 111, 110>>

enonce1varlen == 4

enonce2varlen == 4

\* script_len = coinb1len - script_len_pos - 1 + enonce1varlen
\*              + enonce2varlen - 1
ScriptLen(coinb1len, script_len_pos) ==
    coinb1len - script_len_pos - 1 + enonce1varlen + enonce2varlen - 1

\* create_coinbase_tx(height, block_reward, address) at the second time and
\* nanosecond nsec of the clock, script_pubkey being the script of address;
\* script_len_pos counts from 0 as in the source
create_coinbase_tx(height, block_reward, script_pubkey, time, nsec) ==
    LET script_len_pos == Len(scriptsig_header) - 1
        body == scriptsig_header
                  \o ser_number(height)
                  \o <<Len(flags)>> \o flags
                  \o ser_number(time)
                  \o ser_number(nsec)
                  \o <<enonce1varlen + enonce2varlen>>
        script_len == ScriptLen(Len(body), script_len_pos)
    IN  [ coinbase1 |-> [body EXCEPT ![script_len_pos + 1] = script_len],
          coinbase2 |-> pool_sig
                          \o <<255, 255, 255, 255>>
                          \o <<1>>
                          \o pack(block_reward, 8)
                          \o encode_varint(Len(script_pubkey))
                          \o script_pubkey
                          \o <<0, 0, 0, 0>> ]

----------------------------------------------------------------------------
(* Job registry and template fetcher.  The operators take and give the     *)
(* pool's registry state p = [jobs, current_block, current_job_id,         *)
(* insert_log]; the actions apply them to the variables.                   *)

PoolState ==
    [ jobs |-> jobs, current_block |-> current_block,
      current_job_id |-> current_job_id, insert_log |-> insert_log,
      fetch_log |-> fetch_log ]

\* a trim that kept the oldest jobs: the variant RegistryKeepsNewest tells
\* from LastJobs
FirstJobs(js) == IF Len(js) > MaxJobs THEN SubSeq(js, 1, MaxJobs) ELSE js

\* self.jobs = self.jobs[-20:]
LastJobs(js) ==
    IF Len(js) > MaxJobs THEN SubSeq(js, Len(js) - MaxJobs + 1, Len(js))
    ELSE js

\* no miner of self.miners has a 'connection' (register_worker stores none
\* and add_miner is never called), so send_job_to_miner only logs
distribute_job(p, job) ==
    [p EXCEPT !.jobs = LastJobs(Append(p.jobs, job)),
              !.insert_log = Append(p.insert_log, job.job_id)]

\* a counter that stood still: the variant JobIdsIncrease tells from
\* NextJobId
SameJobId(id) == id

\* the id the next job gets
NextJobId(id) == id + 1

\* A configured address by what address_to_script_pubkey asks of it: how it
\* starts, whether its checksum decoding (bech32_decode, b58decode_check)
\* succeeds, and the bytes of the witness program it decodes to.
\* fallback='tb1q6kr0xxz37ys0ajfjf2kv85hl48zf8g7grs40lu'
DefaultAddress == [start |-> "tb1", decodes |-> TRUE, program |-> 20]

\* address_to_script_pubkey: the first bytes of the script, or None where it
\* raises.  For an address that starts with tb1 and does not decode, data is
\* read before any assignment (UnboundLocalError); a base58 address that
\* does not decode gives the empty script 6a00, as every other address does.
address_to_script_pubkey(address) ==
    IF address.start = "tb1"
      THEN IF ~address.decodes THEN None
           ELSE IF address.program = 20 THEN Some(<<0, 20>>)
           ELSE IF address.program = 32 THEN Some(<<0, 32>>)
           ELSE Some(<<106, 0>>)
    ELSE IF address.start = "2"
      THEN IF address.decodes THEN Some(<<169, 20>>) ELSE Some(<<106, 0>>)
    ELSE IF address.start \in {"m", "n"}
      THEN IF address.decodes THEN Some(<<118, 169, 20>>)
           ELSE Some(<<106, 0>>)
    ELSE Some(<<106, 0>>)

\* create_stratum_job raises: create_coinbase_tx calls
\* address_to_script_pubkey on the configured address
JobFails == address_to_script_pubkey(pool_address) = None

\* an update that lost the template on a failed fetch
update_block_template_forgetting(p, resp) ==
    IF resp.kind # "result"
      THEN [p EXCEPT !.current_block = None]
    ELSE LET template == resp.template[1]
         IN  IF p.current_block = None
                \/ template.height # p.current_block[1].height
             THEN LET id == NextJobId(p.current_job_id)
                  IN  distribute_job(
                        [p EXCEPT !.current_block = Some(template),
                                  !.current_job_id = id],
                        create_stratum_job(template, id))
             ELSE p

\* an update that built a job from every template the node answered
update_block_template_always(p, resp) ==
    IF resp.kind # "result" THEN p
    ELSE LET template == resp.template[1]
             id == NextJobId(p.current_job_id)
         IN  distribute_job([p EXCEPT !.current_block = Some(template),
                                      !.current_job_id = id],
                            create_stratum_job(template, id))

\* update_block_template: the template and the counter are stored before
\* create_stratum_job is called, and the except clause around the body only
\* logs what that raises
update_block_template(p, resp) ==
    IF resp.kind # "result" THEN p
    ELSE LET template == resp.template[1]
         IN  IF p.current_block = None
                \/ template.height # p.current_block[1].height
             THEN LET id == NextJobId(p.current_job_id)
                      q == [p EXCEPT !.current_block = Some(template),
                                     !.current_job_id = id]
                  IN  IF JobFails THEN q
                      ELSE distribute_job(q, create_stratum_job(template, id))
             ELSE p

\* the template, the counter and the registry of pool p
Held(p) == <<p.current_block, p.current_job_id, p.jobs>>

\* a call that compares the node's template with what the pool held before
\* an earlier call stored its own, as a call that ran alongside would
FetchStale(p, resp, caller) ==
    LET q == [ update_block_template([p EXCEPT !.current_block = None], resp)
                 EXCEPT !.current_block =
                          IF resp.kind = "result" THEN resp.template
                          ELSE p.current_block ]
    IN  IF Len(p.fetch_log) < fetch_cap
          THEN [q EXCEPT !.fetch_log =
                  Append(@, [ kind |-> resp.kind, caller |-> caller,
                              template |-> resp.template,
                              before |-> Held(p), after |-> Held(q) ])]
        ELSE q

\* one call of update_block_template by caller that the node answers with
\* resp, on the run's log while that has room.  get_block_template is a
\* plain function around requests.post: the call returns without the event
\* loop running another task.
Fetch(p, resp, caller) ==
    LET q == update_block_template(p, resp)
    IN  IF Len(p.fetch_log) < fetch_cap
          THEN [q EXCEPT !.fetch_log =
                  Append(@, [ kind |-> resp.kind, caller |-> caller,
                              template |-> resp.template,
                              before |-> Held(p), after |-> Held(q) ])]
        ELSE q

\* the pools get_current_job can leave: it fetches when the registry is
\* empty, and the node answers with one of resps
PoolsAfterGetCurrentJob(p, resps, caller) ==
    IF p.jobs = <<>> THEN { Fetch(p, resp, caller) : resp \in resps }
    ELSE {p}

\* what get_current_job returns on the pool it leaves behind
CurrentJobOf(p) == IF p.jobs # <<>> THEN Some(Last(p.jobs)) ELSE None

\* the sessions that are authorized and whose connection is up
Listening ==
    { c \in DOMAIN clients : clients[c].authorized /\ transport[c] = "open" }

SetPool(p) ==
    /\ jobs' = p.jobs
    /\ current_block' = p.current_block
    /\ current_job_id' = p.current_job_id
    /\ insert_log' = p.insert_log
    /\ fetch_log' = p.fetch_log
    /\ pool_address' = pool_address
    /\ owed' = IF Len(p.insert_log) > Len(insert_log)
                THEN [j \in DOMAIN owed \cup {Last(p.insert_log)} |->
                        IF j \in DOMAIN owed THEN owed[j] ELSE Listening]
              ELSE owed

----------------------------------------------------------------------------
(* Share validation.  The operators take and give the pool's share state   *)
(* st = [submitted_shares, worker_stats, blocks_found, submitted_blocks,   *)
(* submitblock_calls].                                                     *)

ShareState ==
    [ submitted_shares |-> submitted_shares, worker_stats |-> worker_stats,
      blocks_found |-> blocks_found, submitted_blocks |-> submitted_blocks,
      submitblock_calls |-> submitblock_calls ]

\* f"{worker_name}:{job_id}:{extranonce2}:{ntime}:{nonce}"
ShareKey(worker_name, job_id, extranonce2, ntime, nonce) ==
    worker_name \o <<":">> \o job_id \o <<":">> \o extranonce2 \o <<":">>
    \o ntime \o <<":">> \o nonce

\* a lookup that found no job: the variant ChecksInOrder tells from FindJob
NoJobFound(js, numeric_job_id) == None

\* for j in self.jobs: if j['job_id'] == numeric_job_id
FindJob(js, numeric_job_id) ==
    LET hits == { i \in 1..Len(js) :
                    IntDigits(js[i].job_id, 16) = numeric_job_id }
    IN  IF hits = {} THEN None
        ELSE Some(js[CHOOSE i \in hits : \A k \in hits : i <= k])

\* a window that closed at 600 seconds: the variant TimeWindow tells from
\* TimeOutOfRange
TimeOutOfRangeAt600(job_ntime, submit_ntime) ==
    \/ ~LeqDigits(submit_ntime, IntDigits(job_ntime + 599, 16))
    \/ /\ job_ntime - 599 > 0
       /\ ~LeqDigits(IntDigits(job_ntime - 599, 16), submit_ntime)

\* abs(job_ntime - submit_ntime) > 600, submit_ntime as base-16 digits
TimeOutOfRange(job_ntime, submit_ntime) ==
    \/ ~LeqDigits(submit_ntime, IntDigits(job_ntime + 600, 16))
    \/ /\ job_ntime - 600 > 0
       /\ ~LeqDigits(IntDigits(job_ntime - 600, 16), submit_ntime)

RECURSIVE SumSeq(_)
SumSeq(q) == IF q = <<>> THEN 0 ELSE Head(q) + SumSeq(Tail(q))

\* The digests double_sha256 can give for a header, as 32 little-endian
\* bytes: hashes equal to 1, just above the target of 1b0404cb, equal to
\* the difficulty-1 target, and equal to 2^224
Digests ==
    << Reverse(Zeros(31) \o <<1>>),
       Reverse(Zeros(5) \o <<4, 4, 204>> \o Zeros(24)),
       Reverse(Zeros(4) \o <<255, 255>> \o Zeros(26)),
       Reverse(Zeros(3) \o <<1>> \o Zeros(28)) >>

\* double_sha256 of the 80-byte header validate_share builds: a fixed
\* function of the bytes that go into the header (the coinbase with both
\* extranonces, the version, ntime and nonce bytes), here a checksum of them
\* that selects the digest
HeaderHash(job, e1_bytes, e2_bytes, version_digits, ntime_bytes, nonce_bytes) ==
    Digests[((job.template.height + SumSeq(e1_bytes) + SumSeq(e2_bytes)
             + SumSeq(version_digits) + SumSeq(ntime_bytes)
             + SumSeq(nonce_bytes)) % Len(Digests)) + 1]

\* a pool target check every hash passed: the variant AcceptedMeetsTargets
\* tells from ShareValid
AnyShareValid(header_hash_int, pool_target) == TRUE

\* header_hash_int <= pool_target
ShareValid(header_hash_int, pool_target) ==
    LeqDigits(header_hash_int, pool_target)

\* header_hash_int <= network_target
BlockFound(header_hash_int, network_target) ==
    LeqDigits(header_hash_int, network_target)

\* record_share without the pool-wide block counter
record_share_worker_only(st, worker_name, bitcoin_address, difficulty, block_found) ==
    LET ws0 == IF worker_name \in DOMAIN st.worker_stats
                 THEN st.worker_stats
               ELSE [w \in DOMAIN st.worker_stats \cup {worker_name} |->
                       IF w = worker_name
                         THEN [ shares |-> 0, rejected |-> 0,
                                last_share |-> now, blocks_found |-> 0,
                                bitcoin_address |-> bitcoin_address ]
                       ELSE st.worker_stats[w]]
        ws1 == [ws0 EXCEPT ![worker_name].shares = @ + 1,
                           ![worker_name].last_share = now]
    IN  IF block_found
          THEN [st EXCEPT
                  !.worker_stats =
                     [ws1 EXCEPT ![worker_name].blocks_found = @ + 1]]
        ELSE [st EXCEPT !.worker_stats = ws1]

record_share(st, worker_name, bitcoin_address, difficulty, block_found) ==
    LET ws0 == IF worker_name \in DOMAIN st.worker_stats
                 THEN st.worker_stats
               ELSE [w \in DOMAIN st.worker_stats \cup {worker_name} |->
                       IF w = worker_name
                         THEN [ shares |-> 0, rejected |-> 0,
                                last_share |-> now, blocks_found |-> 0,
                                bitcoin_address |-> bitcoin_address ]
                       ELSE st.worker_stats[w]]
        ws1 == [ws0 EXCEPT ![worker_name].shares = @ + 1,
                           ![worker_name].last_share = now]
    IN  IF block_found
          THEN [st EXCEPT
                  !.worker_stats =
                     [ws1 EXCEPT ![worker_name].blocks_found = @ + 1],
                  !.blocks_found = @ + 1]
        ELSE [st EXCEPT !.worker_stats = ws1]

\* what the node's submitblock RPC can do: result null, a rejection string
\* as result, an error envelope (BitcoinRPC.submitblock raises), or a failure
\* of the HTTP call (raises)
RpcOutcomes == {"null", "rejected", "error", "raise"}

\* a submit_block that let its exception out: the variant
\* FailedBlockStillCounts tells from submit_block
submit_block_raising(st, header_hash, job, bitcoin_address, worker_name, rpc) ==
    [st |-> st, raised |-> TRUE, outcome |-> "keyerror"]

\* submit_block: the share state it leaves, raised for an exception that
\* leaves it, and what became of the block ("keyerror", "rpc_failed",
\* "recorded").  The block dict reads job['transactions'] before the RPC is
\* sent; a job that has no such key raises KeyError there, which the except
\* clause swallows.
submit_block(st, header_hash, job, bitcoin_address, worker_name, rpc) ==
    IF "transactions" \notin DOMAIN job
      THEN [st |-> st, raised |-> FALSE, outcome |-> "keyerror"]
    ELSE LET sent == [st EXCEPT !.submitblock_calls = @ + 1]
         IN  IF rpc \in {"error", "raise"}
               THEN [st |-> sent, raised |-> FALSE, outcome |-> "rpc_failed"]
             ELSE [st |-> [sent EXCEPT !.submitted_blocks =
                             Append(@, [ hash |-> header_hash,
                                         height |-> IF "height" \in DOMAIN job
                                                      THEN job.height
                                                    ELSE "unknown",
                                         result |-> rpc,
                                         finder |-> worker_name,
                                         bitcoin_address |-> bitcoin_address ])],
                   raised |-> FALSE, outcome |-> "recorded"]

Rejected(st, reason, seen) ==
    [ st |-> st, valid |-> FALSE, block_found |-> FALSE, reason |-> reason,
      reached_duplicate_check |-> seen, h_int |-> None, job |-> None,
      block_submit |-> "none", version |-> None ]

\* a duplicate check that found nothing: the variant RepeatNeverAccepted
\* tells from SeenBefore
NeverSeen(st, share_key) == FALSE

\* if share_key in self.submitted_shares
SeenBefore(st, share_key) == share_key \in st.submitted_shares

\* validate_share: the share state it leaves, its return value (valid,
\* block_found, reason) and, for the properties, whether the submission
\* reached the duplicate check, the hash integer and the job it used
validate_share(st, js, worker_name, bitcoin_address, job_id, extranonce1, extranonce2, ntime, nonce, version, difficulty, rpc) ==
    LET numeric_job_id == int16(job_id)
    IN
    IF numeric_job_id = None THEN Rejected(st, "Invalid job ID format", FALSE)
    ELSE
    LET found == FindJob(js, numeric_job_id[1])
    IN
    IF found = None THEN Rejected(st, "Job not found", FALSE)
    ELSE
    LET job == found[1]
        submit_ntime == int16(ntime)
    IN
    IF submit_ntime = None THEN Rejected(st, "Validation error", FALSE)
    ELSE IF TimeOutOfRange(job.ntime, submit_ntime[1])
      THEN Rejected(st, "Time out of range", FALSE)
    ELSE
    LET share_key == ShareKey(worker_name, job_id, extranonce2, ntime, nonce)
    IN
    IF SeenBefore(st, share_key)
      THEN Rejected(st, "Duplicate share", TRUE)
    ELSE
    LET st1 == [st EXCEPT !.submitted_shares = @ \cup {share_key}]
        e1_bytes == fromhex(extranonce1)
        e2_bytes == fromhex(extranonce2)
        coinbase_ok == /\ (Len(extranonce1) + Len(extranonce2)) % 2 = 0
                       /\ IsHexText(extranonce1 \o extranonce2)
        client_version == IF version = None \/ version = Some(<<>>)
                            THEN Some(<<>>) ELSE int16(version[1])
        final_version ==
            OrDigits(IntDigits(job.version, 16), client_version[1])
        ntime_bytes == fromhex(ntime)
        nonce_bytes == fromhex(nonce)
    IN
    IF \/ ~coinbase_ok
       \/ client_version = None
       \/ Len(final_version) > 8
       \/ ntime_bytes = None
       \/ nonce_bytes = None
      THEN Rejected(st1, "Validation error", TRUE)
    ELSE
    LET header_hash ==
            HeaderHash(job,
                       [i \in 1..Len(extranonce1) |-> NibbleOf(extranonce1[i])],
                       [i \in 1..Len(extranonce2) |-> NibbleOf(extranonce2[i])],
                       final_version, ntime_bytes[1], nonce_bytes[1])
        header_hash_int == from_bytes_little(header_hash)
        current_difficulty ==
            IF difficulty # None THEN difficulty[1] ELSE job.pool_difficulty
        pool_target == difficulty_to_target(current_difficulty)
        share_valid == ShareValid(header_hash_int, pool_target)
        network_target == bits_to_target(job.nbits)
        block_found == BlockFound(header_hash_int, network_target)
    IN
    IF ~share_valid
      THEN [ Rejected(st1, "Share above target", TRUE)
               EXCEPT !.h_int = Some(header_hash_int), !.job = Some(job),
                      !.version = Some(final_version) ]
    ELSE
    LET st2 == record_share(st1, worker_name, bitcoin_address,
                            current_difficulty, block_found)
        sub == IF block_found
                 THEN submit_block(st2, header_hash, job, bitcoin_address,
                                   worker_name, rpc)
               ELSE [st |-> st2, raised |-> FALSE, outcome |-> "none"]
    IN
    IF sub.raised
      THEN [ Rejected(sub.st, "Validation error", TRUE)
               EXCEPT !.h_int = Some(header_hash_int), !.job = Some(job),
                      !.block_found = block_found,
                      !.block_submit = sub.outcome,
                      !.version = Some(final_version) ]
    ELSE [ st |-> sub.st, valid |-> TRUE, block_found |-> block_found,
           reason |-> "", reached_duplicate_check |-> TRUE,
           h_int |-> Some(header_hash_int), job |-> Some(job),
           block_submit |-> sub.outcome, version |-> Some(final_version) ]

SetShares(st) ==
    /\ submitted_shares' = st.submitted_shares
    /\ worker_stats' = st.worker_stats
    /\ blocks_found' = st.blocks_found
    /\ submitted_blocks' = st.submitted_blocks
    /\ submitblock_calls' = st.submitblock_calls

----------------------------------------------------------------------------
(* Actions of the pool's background tasks *)

\* block_template_updater: one tick of the 10 s poll loop
PollTick ==
    /\ current_job_id < job_cap
    /\ UNCHANGED <<shareVars, serverVars, bcVars, submitVars,
                   job_cap, fetch_cap, last_request, builderVars, sdVars, timeVars, connVars>>
    /\ \E p \in { Fetch(PoolState, resp, "poll") :
                    resp \in Responses(current_block) } :
         SetPool(p)

\* block_template_updater: one tick of the poll loop, the node's chain being
\* one that may reorganise
ForkedPollTick ==
    /\ current_job_id < job_cap
    /\ UNCHANGED <<shareVars, serverVars, bcVars, submitVars,
                   job_cap, fetch_cap, last_request, builderVars, sdVars, timeVars, connVars>>
    /\ \E p \in { Fetch(PoolState, resp, "poll") :
                    resp \in ForkResponses(current_block) } :
         SetPool(p)

\* zmq_listener: one hashblock message (or an error of the socket, after
\* which the loop goes on without a fetch)
ZmqNotify ==
    /\ current_job_id < job_cap
    /\ UNCHANGED <<shareVars, serverVars, bcVars, submitVars,
                   job_cap, fetch_cap, last_request, builderVars, sdVars, timeVars, connVars>>
    /\ \E p \in { Fetch(PoolState, resp, "zmq") :
                    resp \in Responses(current_block) } :
         SetPool(p)

\* dt seconds pass; the reaper's sleep ends on time
Tick(dt) ==
    /\ now + dt <= clock_cap
    /\ now + dt <= next_sweep
    /\ now' = now + dt
    /\ UNCHANGED <<poolVars, shareVars, serverVars, bcVars, submitVars, owed,
                   job_cap, fetch_cap, last_request, builderVars, sdVars, clock_cap, connVars>>

----------------------------------------------------------------------------
(* Stratum server: configuration and frames *)

\* config.getint('STRATUM', 'max_connections', fallback=100)
max_connections == 100

\* await asyncio.sleep(60) of cleanup_inactive_clients
sweep_interval == 60

inactive_timeout == 300

\* config.getfloat('STRATUM', 'difficulty', fallback=1.0)
default_difficulty == <<1, 1>>

\* config.getboolean('STRATUM', 'accept_suggested_difficulty', fallback=True)
accept_suggested_difficulty == TRUE

\* str(uuid.uuid4()).split('-')[0]: eight hexadecimal characters, new for
\* every connection
ClientId(c) == FormatHex(c, 8)

\* the bytes of one writer.write call: json.dumps of a response and the
\* newline after it
Response(result, code, reason) ==
    [ method |-> "", params |-> <<>>, result |-> result,
      error |-> <<code, reason>>, end |-> "\n" ]

\* a notification written without its newline
NotificationUnterminated(method, params) ==
    [ method |-> method, params |-> params, result |-> "", error |-> <<>>,
      end |-> "" ]

\* the bytes of one writer.write call: json.dumps of a notification and the
\* newline after it
Notification(method, params) ==
    [ method |-> method, params |-> params, result |-> "", error |-> <<>>,
      end |-> "\n" ]

\* the mining.notify both process_message and broadcast_jobs build
JobNotification(job) ==
    Notification("mining.notify",
                 << FormatHex(job.job_id, 16), job.prevhash, job.coinbase1,
                    job.coinbase2, job.merkle_branches,
                    FormatHex(job.version, 8), job.nbits,
                    FormatHex(job.ntime, 8), FALSE >>)

NewClient ==
    [ last_activity |-> now,
      heard |-> now,        \* when the connection or its latest line came
      authorized |-> FALSE, worker_name |-> None, subscribed |-> FALSE,
      extranonce1 |-> None, bitcoin_address |-> None, difficulty |-> None,
      suggested_difficulty |-> None, disconnected |-> FALSE ]

\* self.clients[client_id]['last_activity'] = time.time() after a readline
\* that returned a line
Active(cl, c) == [cl EXCEPT ![c].last_activity = now]

\* readline returned a line of session c
Received(cl, c) == [Active(cl, c) EXCEPT ![c].heard = now]

Remove(order, c) == SelectSeq(order, LAMBDA x : x # c)

\* a session stops counting as one that stays connected
Forget(c) ==
    /\ owed' = [j \in DOMAIN owed |-> owed[j] \ {c}]
    /\ bc_targets' = bc_targets \ {c}

\* writer.write(line) on the session's own connection
Written(c, line) ==
    frames' = [frames EXCEPT ![c] = Append(@, line)]

\* a session's end that keeps its slot of the semaphore
CleanupHoldingSlot(c) ==
    /\ clients' = [k \in DOMAIN clients \ {c} |-> clients[k]]
    /\ client_order' = Remove(client_order, c)
    /\ pc' = [pc EXCEPT ![c] = "gone"]
    /\ connection_semaphore' = connection_semaphore

\* The end of a session's task: an exception of a write on a lost connection
\* (the handler's write of the error line raises again, ConnectionError leaves
\* the read loop) or the end of the stream; the finally clauses delete the
\* client and close the writer (writer.is_closing() holds after close(), so
\* wait_closed is not awaited), and handle_client leaves the semaphore
Cleanup(c) ==
    /\ clients' = [k \in DOMAIN clients \ {c} |-> clients[k]]
    /\ client_order' = Remove(client_order, c)
    /\ pc' = [pc EXCEPT ![c] = "gone"]
    /\ connection_semaphore' = connection_semaphore + 1

----------------------------------------------------------------------------
(* Actions of a session's task (handle_client, _process_client_messages,   *)
(* process_message)                                                        *)

\* the connections being served inside the semaphore
Served == { c \in DOMAIN pc : pc[c] \notin {"new", "gone", "refused"} }

\* self.connection_semaphore.locked() with no task waiting for the semaphore
locked_always_free(value) == FALSE

locked(value) == value = 0

\* handle_client up to its first readline, or through its else branch
Connect(c) ==
    /\ pc[c] = "new"
    /\ accepting
    /\ IF ~locked(connection_semaphore)
         THEN /\ connection_semaphore' = connection_semaphore - 1
              /\ clients' = (c :> NewClient) @@ clients
              /\ client_order' = Append(client_order, c)
              /\ pc' = [pc EXCEPT ![c] = "read"]
              /\ UNCHANGED <<frames, transport>>
         ELSE /\ Written(c, Response("", 503, "Too many connections"))
              /\ transport' = [transport EXCEPT ![c] = "closed"]
              /\ pc' = [pc EXCEPT ![c] = "refused"]
              /\ UNCHANGED <<clients, client_order, connection_semaphore>>
    /\ UNCHANGED <<poolVars, shareVars, bcVars, submitVars, owed,
                   job_cap, fetch_cap, last_request, builderVars, sdVars, timeVars, connection_limit, next_sweep>>

\* the miner goes away, or the connection breaks
PeerClose(c) ==
    /\ pc[c] \in {"read", "auth_sleep1", "auth_sleep2"}
    /\ transport[c] = "open"
    /\ transport' = [transport EXCEPT ![c] = "lost"]
    /\ frames' = [frames EXCEPT ![c] = <<>>]
    /\ Forget(c)
    /\ UNCHANGED <<poolVars, shareVars, clients, client_order, pc,
                   bc_pc, last_job_id, bc_size, bc_done, bc_job, submitVars,
                   job_cap, fetch_cap, last_request, builderVars, sdVars, timeVars, connVars>>

\* readline returns b'': the loop ends and the client is deleted
SessionEOF(c) ==
    /\ pc[c] = "read"
    /\ transport[c] # "open"
    /\ Cleanup(c)
    /\ UNCHANGED <<poolVars, shareVars, transport, frames, bcVars,
                   submitVars, owed,
                   job_cap, fetch_cap, last_request, builderVars, sdVars, timeVars, connection_limit, next_sweep>>

\* a line that is no JSON
InvalidLine(c) ==
    /\ pc[c] = "read"
    /\ transport[c] = "open"
    /\ clients' = Received(clients, c)
    /\ Written(c, Response("", 20, "Invalid JSON"))
    /\ UNCHANGED <<poolVars, shareVars, client_order, pc, transport, bcVars,
                   submitVars, owed,
                   job_cap, fetch_cap, last_request, builderVars, sdVars, timeVars, connVars>>

\* a line of JSON without an id: the loop continues
IdlessLine(c) ==
    /\ pc[c] = "read"
    /\ transport[c] = "open"
    /\ clients' = Received(clients, c)
    /\ UNCHANGED <<poolVars, shareVars, client_order, pc, transport, frames,
                   bcVars, submitVars, owed,
                   job_cap, fetch_cap, last_request, builderVars, sdVars, timeVars, connVars>>

\* the response lines among fs: the lines that answer a request
ResponsesIn(fs) == Cardinality({ i \in 1..Len(fs) : fs[i].method = "" })

\* process_message takes up a request of session c that carries an id;
\* returned tells whether it comes back before the step ends
Requested(c, method, returned) ==
    IF last_request = None THEN None
    ELSE Some([ session |-> c, method |-> method,
                responses |-> ResponsesIn(frames[c]),
                returned |-> returned ])

\* process_message comes back from the request of session c
Returned(c) ==
    IF last_request # None /\ last_request[1].session = c
      THEN Some([last_request[1] EXCEPT !.returned = TRUE])
    ELSE last_request

\* mining.subscribe
Subscribe(c) ==
    /\ pc[c] = "read"
    /\ transport[c] = "open"
    /\ ~clients[c].subscribed
    /\ clients' = [Received(clients, c) EXCEPT
                     ![c].subscribed = TRUE,
                     ![c].extranonce1 =
                        Some(SubSeq(ClientId(c), 1, 8) \o <<"0", "0">>)]
    /\ Written(c, Response("subscription", 0, ""))
    /\ UNCHANGED <<poolVars, shareVars, client_order, pc, transport, bcVars,
                   submitVars, owed,
                   job_cap, fetch_cap, builderVars, sdVars, timeVars, connVars>>
    /\ last_request' = Requested(c, "mining.subscribe", TRUE)

\* mining.authorize up to asyncio.sleep(1.0): validate_worker takes any
\* non-empty worker name; for an empty one process_message returns None and
\* nothing is written
Authorize(c, worker_name) ==
    /\ pc[c] = "read"
    /\ transport[c] = "open"
    /\ ~clients[c].authorized
    /\ IF worker_name # <<>>
         THEN /\ clients' = [Received(clients, c) EXCEPT
                               ![c].authorized = TRUE,
                               ![c].worker_name = Some(worker_name),
                               ![c].bitcoin_address = Some(worker_name)]
              /\ Written(c, Response("true", 0, ""))
              /\ pc' = [pc EXCEPT ![c] = "auth_sleep1"]
         ELSE /\ clients' = Received(clients, c)
              /\ UNCHANGED <<frames, pc>>
    /\ UNCHANGED <<poolVars, shareVars, client_order, transport, bcVars,
                   submitVars, owed,
                   job_cap, fetch_cap, builderVars, sdVars, timeVars, connVars>>
    /\ last_request' = Requested(c, "mining.authorize", worker_name = <<>>)

\* mining.authorize from asyncio.sleep(1.0) to asyncio.sleep(2.0)
AuthorizeDifficulty(c) ==
    /\ pc[c] = "auth_sleep1"
    /\ IF transport[c] = "open"
         THEN /\ clients' = [clients EXCEPT
                               ![c].difficulty = Some(default_difficulty)]
              /\ Written(c, Notification("mining.set_difficulty",
                                         <<default_difficulty>>))
              /\ pc' = [pc EXCEPT ![c] = "auth_sleep2"]
              /\ UNCHANGED <<client_order, connection_semaphore>>
         ELSE Cleanup(c) /\ UNCHANGED frames
    /\ UNCHANGED <<poolVars, shareVars, transport, bcVars, submitVars, owed,
                   job_cap, fetch_cap, last_request, builderVars, sdVars, timeVars, connection_limit, next_sweep>>

\* mining.authorize from asyncio.sleep(2.0) to the next readline
AuthorizeNotify(c) ==
    /\ pc[c] = "auth_sleep2"
    /\ \E p \in PoolsAfterGetCurrentJob(PoolState,
                                         Responses(current_block),
                                         "session") :
         LET current_job == CurrentJobOf(p)
         IN  /\ SetPool(p)
             /\ IF current_job = None
                  THEN /\ pc' = [pc EXCEPT ![c] = "read"]
                       /\ UNCHANGED <<clients, client_order, frames,
                                      connection_semaphore>>
                ELSE IF transport[c] = "open"
                  THEN /\ Written(c, JobNotification(current_job[1]))
                       /\ pc' = [pc EXCEPT ![c] = "read"]
                       /\ UNCHANGED <<clients, client_order,
                                      connection_semaphore>>
                ELSE Cleanup(c) /\ UNCHANGED frames
    /\ UNCHANGED <<shareVars, transport, bcVars, submitVars,
                   job_cap, fetch_cap, builderVars, sdVars, timeVars, connection_limit, next_sweep>>
    /\ last_request' = Returned(c)

\* mining.suggest_difficulty
SuggestDifficulty(c, suggested_difficulty) ==
    /\ pc[c] = "read"
    /\ transport[c] = "open"
    /\ clients[c].suggested_difficulty = None
    /\ LET difficulty_to_use == IF accept_suggested_difficulty
                                  THEN suggested_difficulty
                                ELSE default_difficulty
       IN  /\ clients' = [Received(clients, c) EXCEPT
                            ![c].suggested_difficulty =
                               Some(suggested_difficulty),
                            ![c].difficulty = Some(difficulty_to_use)]
           /\ frames' = [frames EXCEPT ![c] =
                           @ \o << Notification("mining.set_difficulty",
                                                <<difficulty_to_use>>),
                                   Response("true", 0, "") >>]
    /\ UNCHANGED <<poolVars, shareVars, client_order, pc, transport, bcVars,
                   submitVars, owed,
                   job_cap, fetch_cap, builderVars, sdVars, timeVars, connVars>>
    /\ last_request' = Requested(c, "mining.suggest_difficulty", TRUE)

\* the five values a share is told apart by
ShareTuple(prm) ==
    <<prm.worker_name, prm.job_id, prm.extranonce2, prm.ntime, prm.nonce>>

\* the version parameter of a mining.submit as validate_share reads it:
\* int(version, 16), and nothing for a missing or empty one
VersionBits(version) ==
    IF version = None \/ version = Some(<<>>) THEN Some(<<>>)
    ELSE int16(version[1])

\* what a mining.submit of session c says of the work done: the five values
\* of the parameters, the session's extranonce1 and the version bits
Work(c, prm) ==
    [ tuple |-> ShareTuple(prm), extranonce1 |-> clients[c].extranonce1,
      version |-> VersionBits(prm.version) ]

\* the header inputs a mining.submit of session c decodes to, version being
\* the version validate_share hashed
HeaderInputs(c, prm, version) ==
    [ session |-> c, job_id |-> int16(prm.job_id),
      extranonce2 |-> fromhex(prm.extranonce2), ntime |-> fromhex(prm.ntime),
      nonce |-> fromhex(prm.nonce), version |-> version ]

\* the record of a mining.submit that validate_share did not see
SubmitCall(c, prm) ==
    [ session |-> c, tuple |-> ShareTuple(prm),
      repeat |-> ShareTuple(prm) \in last_submit.reached,
      reached |-> last_submit.reached,
      validated |-> FALSE, valid |-> FALSE, block_found |-> FALSE,
      reason |-> "", h_int |-> None, difficulty |-> None, job |-> None,
      block_submit |-> "none",
      job_in_registry |->
         /\ int16(prm.job_id) # None
         /\ FindJob(jobs, int16(prm.job_id)[1]) # None,
      answer |-> None,
      registry |-> jobs,
      key_seen |-> ShareKey(prm.worker_name, prm.job_id, prm.extranonce2,
                            prm.ntime, prm.nonce) \in submitted_shares,
      keys_before |-> submitted_shares,
      stats_before |-> worker_stats,
      time |-> now,
      suggested |-> clients[c].suggested_difficulty,
      version |-> None, work |-> Some(Work(c, prm)),
      described |-> last_submit.described,
      accepted |-> last_submit.accepted,
      shares_before |-> 0, worker_blocks_before |-> 0,
      blocks_before |-> blocks_found,
      calls_before |-> submitblock_calls,
      records_before |-> Len(submitted_blocks) ]

\* mining.submit answered without validate_share
SubmitRefused(c, prm, line) ==
    /\ Written(c, line)
    /\ last_submit' = [SubmitCall(c, prm) EXCEPT !.answer = Some(line)]
    /\ UNCHANGED <<shareVars, accept_log>>

\* mining.submit answered from validate_share's result v
SubmitValidated(c, prm, difficulty, v) ==
    LET known == prm.worker_name \in DOMAIN worker_stats
    IN  /\ SetShares(v.st)
        /\ Written(c, IF v.valid THEN Response("true", 0, "")
                      ELSE Response("false", 21, v.reason))
        /\ last_submit' =
             [ SubmitCall(c, prm) EXCEPT
                 !.reached = IF v.reached_duplicate_check
                               THEN @ \cup {ShareTuple(prm)} ELSE @,
                 !.validated = TRUE,
                 !.valid = v.valid,
                 !.block_found = v.block_found,
                 !.reason = v.reason,
                 !.h_int = v.h_int,
                 !.difficulty = Some(difficulty),
                 !.job = v.job,
                 !.block_submit = v.block_submit,
                 !.version = v.version,
                 !.described =
                    IF v.reached_duplicate_check
                       /\ v.reason # "Duplicate share"
                      THEN @ \cup {Work(c, prm)} ELSE @,
                 !.accepted =
                    IF v.valid
                      THEN Append(@, HeaderInputs(c, prm, v.version))
                    ELSE @,
                 !.answer = Some(IF v.valid THEN Response("true", 0, "")
                                 ELSE Response("false", 21, v.reason)),
                 !.shares_before =
                    IF known THEN worker_stats[prm.worker_name].shares
                    ELSE 0,
                 !.worker_blocks_before =
                    IF known THEN worker_stats[prm.worker_name].blocks_found
                    ELSE 0 ]
        /\ accept_log' = IF v.valid THEN Append(accept_log, ShareTuple(prm))
                         ELSE accept_log

\* the answer to a mining.submit of a session that has not authorized
UnauthorizedAs25 == Response("", 25, "Not subscribed")

UnauthorizedLine == Response("", 24, "Unauthorized worker")

\* a submit that is validated against the configured difficulty whatever
\* the session was told
ConfiguredDifficulty(client) == default_difficulty

\* the difficulty process_message hands to validate_share
ClientDifficulty(client) ==
    IF client.difficulty # None THEN client.difficulty[1]
    ELSE default_difficulty

\* mining.submit with five or six parameters
Submit(c, prm, rpc) ==
    /\ pc[c] = "read"
    /\ transport[c] = "open"
    /\ submit_budget > 0
    /\ IF ~clients[c].authorized
         THEN SubmitRefused(c, prm, UnauthorizedLine)
       ELSE IF clients[c].extranonce1 = None
         THEN SubmitRefused(c, prm,
                            Response("", 20,
                                     "Internal error during validation"))
       ELSE SubmitValidated(
              c, prm, ClientDifficulty(clients[c]),
              validate_share(ShareState, jobs, prm.worker_name,
                             clients[c].bitcoin_address[1], prm.job_id,
                             clients[c].extranonce1[1], prm.extranonce2,
                             prm.ntime, prm.nonce, prm.version,
                             Some(ClientDifficulty(clients[c])), rpc))
    /\ submit_budget' = submit_budget - 1
    /\ clients' = Received(clients, c)
    /\ UNCHANGED <<poolVars, miner_inputs, last_transactions, client_order, pc,
                   transport, bcVars, owed,
                   job_cap, fetch_cap, builderVars, sdVars, timeVars, connVars>>
    /\ last_request' = Requested(c, "mining.submit", TRUE)

\* the answer to mining.configure: whether version-rolling is on, and the
\* mask
ConfigureResponse(rolling, mask) ==
    [ method |-> "", params |-> mask,
      result |-> IF rolling THEN "version-rolling" ELSE "no version-rolling",
      error |-> <<0, "">>, end |-> "\n" ]

\* mining.configure: version-rolling is on when the miner asks for it with a
\* mask (mask is None when it does not), the answer repeats the miner's mask,
\* and the client record keeps nothing of it
Configure(c, mask) ==
    /\ pc[c] = "read"
    /\ transport[c] = "open"
    /\ clients' = Received(clients, c)
    /\ Written(c, IF mask # None THEN ConfigureResponse(TRUE, mask[1])
                  ELSE ConfigureResponse(FALSE, FormatHex(0, 8)))
    /\ UNCHANGED <<poolVars, shareVars, client_order, pc, transport, bcVars,
                   submitVars, owed,
                   job_cap, fetch_cap, builderVars, sdVars, timeVars, connVars>>
    /\ last_request' = Requested(c, "mining.configure", TRUE)

\* the answer to mining.get_transactions: the list is the result
TransactionsResponse(transactions) ==
    [ method |-> "", params |-> transactions, result |-> "transactions",
      error |-> <<0, "">>, end |-> "\n" ]

\* current_job['transactions'] if current_job and 'transactions' in
\* current_job, else []
TransactionsOf(current_job) ==
    IF current_job # None /\ "transactions" \in DOMAIN current_job[1]
      THEN current_job[1].transactions
    ELSE <<>>

\* mining.get_transactions
GetTransactions(c) ==
    /\ pc[c] = "read"
    /\ transport[c] = "open"
    /\ \E p \in PoolsAfterGetCurrentJob(PoolState,
                                         Responses(current_block),
                                         "session") :
         LET current_job == CurrentJobOf(p)
         IN  /\ SetPool(p)
             /\ Written(c, TransactionsResponse(TransactionsOf(current_job)))
             /\ last_transactions' =
                  Some([ session |-> c, job |-> current_job,
                         result |-> TransactionsOf(current_job) ])
    /\ clients' = Received(clients, c)
    /\ UNCHANGED <<shareVars, client_order, pc, transport, bcVars,
                   last_submit, accept_log, submit_budget, miner_inputs,
                   job_cap, fetch_cap, builderVars, sdVars, timeVars, connVars>>
    /\ last_request' = Requested(c, "mining.get_transactions", TRUE)

----------------------------------------------------------------------------
(* The cleanup_inactive_clients task *)

\* an idle test that takes 300 seconds for too long
InactiveAt300(current_time, last_activity) ==
    current_time - last_activity >= inactive_timeout

\* current_time - client_data['last_activity'] > inactive_timeout
Inactive(current_time, last_activity) ==
    current_time - last_activity > inactive_timeout

\* One pass of the loop after its sleep: the writers of the inactive clients
\* are closed (close() on a connection the peer left changes nothing), and
\* the next sleep begins
Sweep ==
    /\ now >= next_sweep
    /\ LET inactive_clients ==
              { c \in DOMAIN clients :
                  Inactive(now, clients[c].last_activity) }
       IN  /\ transport' =
                [c \in DOMAIN transport |->
                   IF c \in inactive_clients /\ transport[c] = "open"
                     THEN "closed" ELSE transport[c]]
           /\ owed' = [j \in DOMAIN owed |-> owed[j] \ inactive_clients]
           /\ bc_targets' = bc_targets \ inactive_clients
    /\ next_sweep' = now + sweep_interval
    /\ UNCHANGED <<poolVars, shareVars, clients, client_order, pc, frames,
                   bc_pc, last_job_id, bc_size, bc_done, bc_job, submitVars,
                   job_cap, fetch_cap, last_request, builderVars, sdVars, timeVars, connection_semaphore,
                   connection_limit>>

----------------------------------------------------------------------------
(* Actions of the broadcast_jobs task *)

\* the clients _send_notification writes to
Sendable ==
    { c \in DOMAIN clients :
        clients[c].authorized /\ ~clients[c].disconnected }

\* The for loop over self.clients.items() from a point where it holds the
\* loop (its start, or the return of a drain) to the next drain that
\* suspends, or to the end of the loop.  The dict iterator raises RuntimeError
\* when the dict's size is not the size it had when the loop began; the
\* except clause of broadcast_jobs then sleeps, and the loop body starts over.
\* _send_notification writes to a client that is authorized and not marked
\* disconnected.  On a lost connection the drain raises ConnectionResetError
\* and the client is marked disconnected.  StreamWriter.drain suspends while
\* the write buffer is over its high-water mark, or for one turn of the event
\* loop while the transport is closing and connection_lost is still to be
\* called: slow holds the clients for which it suspends.
BroadcastFrom(done, size, job, slow) ==
    LET rest == SelectSeq(client_order, LAMBDA c : c \notin done)
        sendable(c) == c \in Sendable
        stops == { i \in 1..Len(rest) :
                     sendable(rest[i]) /\ rest[i] \in slow }
        upto == IF stops = {} THEN Len(rest)
                ELSE CHOOSE i \in stops : \A k \in stops : i <= k
        passed == { rest[k] : k \in 1..upto }
        sent == { c \in passed : sendable(c) /\ transport[c] = "open" }
        failed == { c \in passed : sendable(c) /\ transport[c] # "open" }
    IN  IF Len(client_order) # size
          THEN /\ bc_pc' = "loop"
               /\ bc_done' = {}
               /\ UNCHANGED <<clients, frames>>
        ELSE /\ frames' = [c \in DOMAIN frames |->
                             IF c \in sent
                               THEN Append(frames[c], JobNotification(job))
                             ELSE frames[c]]
             /\ clients' = [c \in DOMAIN clients |->
                              IF c \in failed
                                THEN [clients[c] EXCEPT !.disconnected = TRUE]
                              ELSE clients[c]]
             /\ IF stops = {}
                  THEN bc_pc' = "loop" /\ bc_done' = {}
                ELSE bc_pc' = "iter" /\ bc_done' = done \cup passed

\* the loop body from its start: get_current_job, the comparison with
\* last_job_id, and the for loop up to its first suspension
BroadcastLoop ==
    /\ bc_pc = "loop"
    /\ \E p \in PoolsAfterGetCurrentJob(PoolState,
                                         Responses(current_block),
                                         "broadcast"),
          slow \in SUBSET Sendable :
         LET current_job == CurrentJobOf(p)
         IN  /\ SetPool(p)
             /\ IF \/ current_job = None
                   \/ Some(current_job[1].job_id) = last_job_id
                  THEN UNCHANGED <<clients, frames, bcVars>>
                ELSE /\ last_job_id' = Some(current_job[1].job_id)
                     /\ bc_job' = current_job
                     /\ bc_size' = Len(client_order)
                     /\ bc_targets' = Listening
                     /\ BroadcastFrom({}, Len(client_order), current_job[1],
                                      slow)
    /\ UNCHANGED <<shareVars, client_order, pc, transport, submitVars,
                   job_cap, fetch_cap, last_request, builderVars, sdVars, timeVars, connVars>>

\* the for loop from the return of a drain
BroadcastNext ==
    /\ bc_pc = "iter"
    /\ \E slow \in SUBSET (Sendable \ bc_done) :
         BroadcastFrom(bc_done, bc_size, bc_job[1], slow)
    /\ UNCHANGED <<poolVars, shareVars, client_order, pc, transport,
                   last_job_id, bc_size, bc_job, bc_targets, submitVars,
                   owed,
                   job_cap, fetch_cap, last_request, builderVars, sdVars, timeVars, connVars>>

----------------------------------------------------------------------------
(* The coinbase of a job *)

\* create_stratum_job's call of create_coinbase_tx
BuildCoinbase ==
    /\ coinbase_out = None
    /\ coinbase_out' = Some(create_coinbase_tx(coinbase_in.height,
                                                coinbase_in.block_reward,
                                                coinbase_in.script_pubkey,
                                                coinbase_in.time,
                                                coinbase_in.nsec))
    /\ UNCHANGED <<poolVars, shareVars, serverVars, bcVars, submitVars, owed,
                   job_cap, fetch_cap, last_request, coinbase_in, sdVars, timeVars,
                   connVars>>

----------------------------------------------------------------------------
(* The shutdown task *)

ShutdownNotice ==
    Notification("server.shutdown", <<"Server is shutting down">>)

\* The for loop of shutdown over self.clients.items() from a point where it
\* holds the event loop (its start, or the return of the drain of client at)
\* to the next drain that suspends, or to its end.  After a drain that
\* returned the writer is closed; a drain on a connection that is not open
\* raises and the bare except passes.  The dict iterator raises RuntimeError
\* when the dict's size is not the size it had when the loop began: no
\* except clause of shutdown catches that, and the task ends.  slow holds the
\* clients in whose drain the task suspends.
ShutdownFrom(done, size, at, slow) ==
    LET rest == SelectSeq(client_order, LAMBDA c : c \notin done)
        stops == { i \in 1..Len(rest) : rest[i] \in slow }
        upto == IF stops = {} THEN Len(rest)
                ELSE CHOOSE i \in stops : \A k \in stops : i <= k
        passed == { rest[k] : k \in 1..upto }
        written == { c \in passed : transport[c] = "open" }
        stopped_at == IF stops = {} THEN {} ELSE {rest[upto]}
        resumed == { c \in DOMAIN transport :
                       at = Some(c) /\ transport[c] = "open" }
    IN  IF Len(client_order) # size
          THEN /\ transport' = [c \in DOMAIN transport |->
                                  IF c \in resumed THEN "closed"
                                  ELSE transport[c]]
               /\ sd_pc' = "raised"
               /\ sd_at' = None
               /\ UNCHANGED <<frames, sd_done>>
        ELSE /\ frames' = [c \in DOMAIN frames |->
                             IF c \in written
                               THEN Append(frames[c], ShutdownNotice)
                             ELSE frames[c]]
             /\ transport' = [c \in DOMAIN transport |->
                                IF c \in resumed \cup (written \ stopped_at)
                                  THEN "closed"
                                ELSE transport[c]]
             /\ sd_done' = done \cup passed
             /\ IF stops = {}
                  THEN sd_pc' = "gather" /\ sd_at' = None
                ELSE sd_pc' = "iter" /\ sd_at' = Some(rest[upto])

\* SIGINT or SIGTERM: shutdown from server.close() to the first suspension
\* of its loop.  wait_closed() of a server that has been closed returns
\* without suspending, so the listening socket is closed, the tasks are
\* cancelled and the loop over the clients begins in one step.
ShutdownSignal ==
    /\ sd_pc = "off"
    /\ accepting' = FALSE
    /\ bc_pc' = "cancelled"
    /\ sd_size' = Len(client_order)
    /\ sd_targets' = { c \in DOMAIN clients : transport[c] = "open" }
    /\ \E slow \in SUBSET DOMAIN clients :
         ShutdownFrom({}, Len(client_order), None, slow)
    /\ UNCHANGED <<poolVars, shareVars, clients, client_order, pc,
                   last_job_id, bc_size, bc_done, bc_job, bc_targets,
                   submitVars, owed,
                   job_cap, fetch_cap, last_request, builderVars, timeVars, connVars>>

\* the loop of shutdown from the return of a drain
ShutdownNext ==
    /\ sd_pc = "iter"
    /\ \E slow \in SUBSET (DOMAIN clients \ sd_done) :
         ShutdownFrom(sd_done, sd_size, sd_at, slow)
    /\ UNCHANGED <<poolVars, shareVars, clients, client_order, pc, bcVars,
                   submitVars, owed, accepting, sd_size, sd_targets,
                   job_cap, fetch_cap, last_request, builderVars, timeVars, connVars>>

\* the writers have closed: self.loop.stop()
ShutdownStop ==
    /\ sd_pc = "gather"
    /\ sd_pc' = "stopped"
    /\ UNCHANGED <<poolVars, shareVars, serverVars, bcVars, submitVars, owed,
                   accepting, sd_size, sd_done, sd_at, sd_targets,
                   job_cap, fetch_cap, last_request, builderVars, timeVars, connVars>>

----------------------------------------------------------------------------
(* Specifications *)

InitPool ==
    /\ jobs = <<>>
    /\ current_block = None
    /\ current_job_id = 0
    /\ insert_log = <<>>
    /\ fetch_log = <<>>
    /\ pool_address = DefaultAddress
    /\ owed = << >>

InitShares ==
    /\ submitted_shares = {}
    /\ worker_stats = << >>
    /\ blocks_found = 0
    /\ submitted_blocks = <<>>
    /\ submitblock_calls = 0

InitBroadcast ==
    /\ bc_pc = "loop"
    /\ last_job_id = None
    /\ bc_size = 0
    /\ bc_done = {}
    /\ bc_job = None
    /\ bc_targets = {}

\* no signal yet
InitShutdown ==
    /\ accepting = TRUE
    /\ sd_pc = "off"
    /\ sd_size = 0
    /\ sd_done = {}
    /\ sd_at = None
    /\ sd_targets = {}

NoCoinbase ==
    [ height |-> 0, block_reward |-> 0, script_pubkey |-> <<>>,
      time |-> 0, nsec |-> 0 ]

\* no coinbase is looked at
\* a run that does not follow the requests
InitRequests == last_request = None

InitBuilder ==
    /\ coinbase_in = NoCoinbase
    /\ coinbase_out = None

\* the clock of a run that lasts cap seconds
InitClock(cap) ==
    /\ now = 0
    /\ clock_cap = cap

\* the semaphore of a server configured for limit connections, the sessions
\* of the initial state being served, and the reaper in its first sleep
InitConnections(limit) ==
    /\ connection_limit = limit
    /\ connection_semaphore = limit - Cardinality(DOMAIN clients)
    /\ next_sweep = sweep_interval

NoSubmit ==
    [ session |-> 0, tuple |-> <<>>, repeat |-> FALSE, reached |-> {},
      validated |-> FALSE, valid |-> FALSE, block_found |-> FALSE,
      reason |-> "", h_int |-> None, difficulty |-> None, job |-> None,
      block_submit |-> "none", job_in_registry |-> FALSE,
      answer |-> None, registry |-> <<>>, key_seen |-> FALSE,
      keys_before |-> {}, stats_before |-> << >>, time |-> 0,
      suggested |-> None,
      version |-> None, work |-> None, described |-> {}, accepted |-> <<>>,
      shares_before |-> 0, worker_blocks_before |-> 0,
      blocks_before |-> 0, calls_before |-> 0, records_before |-> 0 ]

InitSubmits(budget, inputs) ==
    /\ last_submit = NoSubmit
    /\ accept_log = <<>>
    /\ submit_budget = budget
    /\ miner_inputs = inputs
    /\ last_transactions = None

\* the worker name of session c
WorkerName(c) == <<"w", HexChars[c + 1]>>

\* a session that has subscribed and authorized and is back at its readline,
\* reached before the first template could be fetched
Mining(c) ==
    [ NewClient EXCEPT !.authorized = TRUE,
                       !.worker_name = Some(WorkerName(c)),
                       !.subscribed = TRUE,
                       !.extranonce1 = Some(ClientId(c) \o <<"0", "0">>),
                       !.bitcoin_address = Some(WorkerName(c)),
                       !.difficulty = Some(default_difficulty) ]

MiningFrames ==
    << Response("subscription", 0, ""), Response("true", 0, ""),
       Notification("mining.set_difficulty", <<default_difficulty>>) >>

\* the sessions of cs mining, no other connection
InitMining(cs) ==
    /\ clients = [c \in cs |-> Mining(c)]
    /\ client_order = [c \in cs |-> c]
    /\ pc = [c \in cs |-> "read"]
    /\ transport = [c \in cs |-> "open"]
    /\ frames = [c \in cs |-> MiningFrames]

\* mining.submit parameters of the workers of cs: a job id and the job's
\* ntime as mining.notify printed them (job j is built from the template of
\* height 99 + j), a fixed extranonce2, a nonce of nonces, no version
SubmitInputs(cs, job_ids, nonces) ==
    { [ worker_name |-> WorkerName(c),
        job_id |-> FormatHex(j, 16),
        extranonce2 |-> <<"0", "0", "0", "0", "0", "0", "0", "0">>,
        ntime |-> FormatHex(NodeTemplate(99 + j).curtime, 8),
        nonce |-> FormatHex(n, 8),
        version |-> None ] : c \in cs, j \in job_ids, n \in nonces }

----------------------------------------------------------------------------
(* The registry through an eviction, with one miner's submissions *)

\* job ids the run inserts
EvictJobs == 22

\* mining.submit requests of the run
EvictSubmits == 2

InitEvict ==
    /\ InitPool
    /\ InitShares
    /\ InitBroadcast
    /\ InitShutdown
    /\ InitBuilder
    /\ InitRequests
    /\ InitClock(0)
    /\ InitMining({1})
    /\ InitSubmits(EvictSubmits, SubmitInputs({1}, {1}, {1, 2}))
    /\ job_cap = EvictJobs
    /\ fetch_cap = 0
    /\ InitConnections(max_connections)

NextEvict ==
    \/ PollTick
    \/ ZmqNotify
    \/ \E c \in DOMAIN clients, prm \in miner_inputs, rpc \in RpcOutcomes :
         Submit(c, prm, rpc)

SpecEvict == InitEvict /\ [][NextEvict]_vars

----------------------------------------------------------------------------
(* Share validation: two miners, each under its own worker name *)

\* job ids the run inserts
ShareJobs == 3

\* mining.submit requests of the run
ShareSubmits == 1

ShareSessions == {1, 2}

\* the nonces the miners try; HeaderHash spreads them over Digests
ShareNonces == 1..4

SuggestedDifficulties == { <<2, 1>> }

InitShare ==
    /\ InitPool
    /\ InitShares
    /\ InitBroadcast
    /\ InitShutdown
    /\ InitBuilder
    /\ InitRequests
    /\ InitClock(0)
    /\ InitMining(ShareSessions)
    /\ InitSubmits(ShareSubmits,
                   SubmitInputs(ShareSessions, {1, 2}, ShareNonces))
    /\ job_cap = ShareJobs
    /\ fetch_cap = 0
    /\ InitConnections(max_connections)

NextShare ==
    \/ PollTick
    \/ ZmqNotify
    \/ \E c \in DOMAIN clients, d \in SuggestedDifficulties :
         SuggestDifficulty(c, d)
    \/ \E c \in DOMAIN clients, prm \in miner_inputs, rpc \in RpcOutcomes :
         /\ Some(prm.worker_name) = clients[c].worker_name
         /\ Submit(c, prm, rpc)

SpecShare == InitShare /\ [][NextShare]_vars

----------------------------------------------------------------------------
(* The server: connections from their arrival, and the broadcaster.  The   *)
(* miners subscribe before they authorize under a worker name.             *)

\* job ids the run inserts
ServerJobs == 2

ServerSessions == {1, 2}

InitServer ==
    /\ InitPool
    /\ InitShares
    /\ InitBroadcast
    /\ InitShutdown
    /\ InitBuilder
    /\ InitRequests
    /\ clients = << >>
    /\ client_order = <<>>
    /\ pc = [c \in ServerSessions |-> "new"]
    /\ transport = [c \in ServerSessions |-> "open"]
    /\ frames = [c \in ServerSessions |-> <<>>]
    /\ InitSubmits(0, {})
    /\ job_cap = ServerJobs
    /\ fetch_cap = 0
    /\ InitClock(0)
    /\ InitConnections(max_connections)

NextServer ==
    \/ PollTick
    \/ ZmqNotify
    \/ BroadcastLoop
    \/ BroadcastNext
    \/ \E c \in DOMAIN pc : Connect(c)
    \/ \E c \in DOMAIN pc : PeerClose(c)
    \/ \E c \in DOMAIN pc : SessionEOF(c)
    \/ \E c \in DOMAIN pc : Subscribe(c)
    \/ \E c \in DOMAIN clients :
         \E worker_name \in {WorkerName(c), <<>>} :
           /\ clients[c].subscribed
           /\ Authorize(c, worker_name)
    \/ \E c \in DOMAIN pc : AuthorizeDifficulty(c)
    \/ \E c \in DOMAIN pc : AuthorizeNotify(c)

SpecServer == InitServer /\ [][NextServer]_vars

----------------------------------------------------------------------------
(* The checks of validate_share: one miner whose submissions fail each     *)
(* check, alone and together                                               *)

\* job ids the run inserts
ChecksJobs == 2

\* mining.submit requests of the run
ChecksSubmits == 2

\* a mining.submit of worker w1 with nonce n, its ntime off job 1's by dt
ChecksInput(job_id, dt, n) ==
    [ worker_name |-> WorkerName(1),
      job_id |-> job_id,
      extranonce2 |-> <<"0", "0", "0", "0", "0", "0", "0", "0">>,
      ntime |-> FormatHex(NodeTemplate(100).curtime + dt, 8),
      nonce |-> FormatHex(n, 8),
      version |-> None ]

UnknownJobId == [i \in 1..16 |-> "f"]

ChecksInputs ==
    { ChecksInput(FormatHex(1, 16), 0, n) : n \in 1..4 }
    \cup { ChecksInput(FormatHex(1, 16), dt, 1) :
             dt \in {600, 601, 0 - 600, 0 - 601} }
    \cup { ChecksInput(<<"z", "z">>, 601, 1),
           ChecksInput(UnknownJobId, 0, 1),
           ChecksInput(UnknownJobId, 601, 1),
           ChecksInput(FormatHex(2, 16), 1000, 1) }

InitChecks ==
    /\ InitPool
    /\ InitShares
    /\ InitBroadcast
    /\ InitShutdown
    /\ InitBuilder
    /\ InitRequests
    /\ InitClock(0)
    /\ InitMining({1})
    /\ InitSubmits(ChecksSubmits, ChecksInputs)
    /\ job_cap = ChecksJobs
    /\ fetch_cap = 0
    /\ InitConnections(max_connections)

NextChecks ==
    \/ PollTick
    \/ ZmqNotify
    \/ \E c \in DOMAIN clients, prm \in miner_inputs, rpc \in RpcOutcomes :
         Submit(c, prm, rpc)

SpecChecks == InitChecks /\ [][NextChecks]_vars

----------------------------------------------------------------------------
(* Worker statistics: two miners submitting while the clock runs *)

\* job ids the run inserts
StatsJobs == 2

\* mining.submit requests of the run
StatsSubmits == 2

\* seconds the run lasts
StatsClock == 1

StatsSessions == {1, 2}

\* the nonces the miners try
StatsNonces == {2}

InitStats ==
    /\ InitPool
    /\ InitShares
    /\ InitBroadcast
    /\ InitShutdown
    /\ InitBuilder
    /\ InitRequests
    /\ InitClock(StatsClock)
    /\ InitMining(StatsSessions)
    /\ InitSubmits(StatsSubmits, SubmitInputs(StatsSessions, {1, 2}, StatsNonces))
    /\ job_cap = StatsJobs
    /\ fetch_cap = 0
    /\ InitConnections(max_connections)

NextStats ==
    \/ PollTick
    \/ ZmqNotify
    \/ Tick(1)
    \/ \E c \in DOMAIN clients, prm \in miner_inputs, rpc \in RpcOutcomes :
         /\ Some(prm.worker_name) = clients[c].worker_name
         /\ Submit(c, prm, rpc)

SpecStats == InitStats /\ [][NextStats]_vars

----------------------------------------------------------------------------
(* The connection limit: a server configured for few connections, and the  *)
(* reaper on a clock of whole minutes                                      *)

\* max_connections of the run's configuration
ConnLimit == 2

\* seconds the run lasts
ConnClock == 420

ConnSessions == {1, 2, 3}

InitConn ==
    /\ InitPool
    /\ InitShares
    /\ InitBroadcast
    /\ InitShutdown
    /\ InitBuilder
    /\ InitRequests
    /\ clients = << >>
    /\ client_order = <<>>
    /\ pc = [c \in ConnSessions |-> "new"]
    /\ transport = [c \in ConnSessions |-> "open"]
    /\ frames = [c \in ConnSessions |-> <<>>]
    /\ InitSubmits(0, {})
    /\ job_cap = 0
    /\ fetch_cap = 0
    /\ InitClock(ConnClock)
    /\ InitConnections(ConnLimit)

NextConn ==
    \/ Tick(sweep_interval)
    \/ Sweep
    \/ \E c \in DOMAIN pc : Connect(c)
    \/ \E c \in DOMAIN pc : PeerClose(c)
    \/ \E c \in DOMAIN pc : SessionEOF(c)

SpecConn == InitConn /\ [][NextConn]_vars

\* a session's task runs on when its readline has returned
SpecConnLive ==
    /\ SpecConn
    /\ \A c \in ConnSessions : WF_vars(SessionEOF(c))

----------------------------------------------------------------------------
(* The idle reaper: two sessions that send lines now and then, on a clock  *)
(* read at the start of a minute, a second later and a second before the   *)
(* next                                                                    *)

\* seconds the run lasts
IdleClock == 361

\* lines a session is answered
IdleLines == 1

IdleSessions == {1, 2}

IdleTicks == {1, 58, 59, 60}

IdleOffsets == {0, 1, 59}

InitIdle ==
    /\ InitPool
    /\ InitShares
    /\ InitBroadcast
    /\ InitShutdown
    /\ InitBuilder
    /\ InitRequests
    /\ clients = << >>
    /\ client_order = <<>>
    /\ pc = [c \in IdleSessions |-> "new"]
    /\ transport = [c \in IdleSessions |-> "open"]
    /\ frames = [c \in IdleSessions |-> <<>>]
    /\ InitSubmits(0, {})
    /\ job_cap = 0
    /\ fetch_cap = 0
    /\ InitClock(IdleClock)
    /\ InitConnections(max_connections)

NextIdle ==
    \/ \E dt \in IdleTicks :
         /\ (now + dt) % sweep_interval \in IdleOffsets
         /\ Tick(dt)
    \/ Sweep
    \/ \E c \in DOMAIN pc : Connect(c)
    \/ \E c \in DOMAIN pc : SessionEOF(c)
    \/ \E c \in DOMAIN pc :
         /\ Len(frames[c]) < IdleLines
         /\ Subscribe(c)
    \/ \E c \in DOMAIN pc :
         /\ Len(frames[c]) < IdleLines
         /\ InvalidLine(c)
    \/ \E c \in DOMAIN pc : IdlessLine(c)

SpecIdle == InitIdle /\ [][NextIdle]_vars

----------------------------------------------------------------------------
(* The fetcher: the poll loop and the ZMQ loop against a node that fails   *)
(* now and then, the first fetches logged                                  *)

\* job ids the run inserts
FetchJobs == 2

\* fetches the run logs
FetchLogs == 4

InitFetch ==
    /\ InitPool
    /\ InitShares
    /\ InitBroadcast
    /\ InitShutdown
    /\ InitBuilder
    /\ InitRequests
    /\ InitClock(0)
    /\ InitMining({1})
    /\ InitSubmits(0, {})
    /\ job_cap = FetchJobs
    /\ fetch_cap = FetchLogs
    /\ InitConnections(max_connections)

NextFetch ==
    \/ PollTick
    \/ ZmqNotify

SpecFetch == InitFetch /\ [][NextFetch]_vars

----------------------------------------------------------------------------
(* The job builder under the addresses a pool can be configured with,       *)
(* against a node whose chain may reorganise, the first fetches logged      *)

\* job ids the run inserts
BuildJobs == 2

\* fetches the run logs
BuildLogs == 3

\* the configured addresses: the default, a tb1 address with a mistyped
\* character, a P2WSH address, and a base58 address with a mistyped character
PoolAddresses ==
    { DefaultAddress,
      [start |-> "tb1", decodes |-> FALSE, program |-> 0],
      [start |-> "tb1", decodes |-> TRUE, program |-> 32],
      [start |-> "m", decodes |-> FALSE, program |-> 0] }

InitBuild ==
    /\ jobs = <<>>
    /\ current_block = None
    /\ current_job_id = 0
    /\ insert_log = <<>>
    /\ fetch_log = <<>>
    /\ pool_address \in PoolAddresses
    /\ owed = << >>
    /\ InitShares
    /\ InitBroadcast
    /\ InitShutdown
    /\ InitBuilder
    /\ InitRequests
    /\ InitClock(0)
    /\ InitMining({1})
    /\ InitSubmits(0, {})
    /\ job_cap = BuildJobs
    /\ fetch_cap = BuildLogs
    /\ InitConnections(max_connections)

NextBuild ==
    \/ ForkedPollTick
    \/ ZmqNotify

SpecBuild == InitBuild /\ [][NextBuild]_vars

----------------------------------------------------------------------------
(* The callers of update_block_template: the poll loop, the ZMQ loop, the   *)
(* mining.authorize of a session that has subscribed, and the broadcaster, *)
(* the first fetches logged                                                *)

\* job ids the run inserts
SerialJobs == 2

\* fetches the run logs
SerialLogs == 2

SerialSessions == {1}

InitSerial ==
    /\ InitPool
    /\ InitShares
    /\ InitBroadcast
    /\ InitShutdown
    /\ InitBuilder
    /\ InitRequests
    /\ InitClock(0)
    /\ clients = [c \in SerialSessions |->
                    [NewClient EXCEPT
                       !.subscribed = TRUE,
                       !.extranonce1 = Some(ClientId(c) \o <<"0", "0">>)]]
    /\ client_order = [c \in SerialSessions |-> c]
    /\ pc = [c \in SerialSessions |-> "read"]
    /\ transport = [c \in SerialSessions |-> "open"]
    /\ frames = [c \in SerialSessions |->
                   <<Response("subscription", 0, "")>>]
    /\ InitSubmits(0, {})
    /\ job_cap = SerialJobs
    /\ fetch_cap = SerialLogs
    /\ InitConnections(max_connections)

NextSerial ==
    \/ PollTick
    \/ ZmqNotify
    \/ BroadcastLoop
    \/ BroadcastNext
    \/ \E c \in DOMAIN clients : Authorize(c, WorkerName(c))
    \/ \E c \in DOMAIN pc : AuthorizeDifficulty(c)
    \/ \E c \in DOMAIN pc : AuthorizeNotify(c)

SpecSerial == InitSerial /\ [][NextSerial]_vars

----------------------------------------------------------------------------
(* The protocol of one session: a miner that sends its requests in any     *)
(* order                                                                   *)

\* job ids the run inserts
SessionJobs == 2

\* mining.submit requests of the run
SessionSubmits == 1

\* lines the server writes to the session
SessionLines == 5

SessionSessions == {1}

\* the difficulties the miner suggests
SessionDifficulties == {<<2, 1>>}

InitSession ==
    /\ InitPool
    /\ InitShares
    /\ InitBroadcast
    /\ InitShutdown
    /\ InitBuilder
    /\ InitRequests
    /\ InitClock(0)
    /\ clients = << >>
    /\ client_order = <<>>
    /\ pc = [c \in SessionSessions |-> "new"]
    /\ transport = [c \in SessionSessions |-> "open"]
    /\ frames = [c \in SessionSessions |-> <<>>]
    /\ InitSubmits(SessionSubmits, SubmitInputs(SessionSessions, {1}, {1}))
    /\ job_cap = SessionJobs
    /\ fetch_cap = 0
    /\ InitConnections(max_connections)

NextSession ==
    \/ PollTick
    \/ \E c \in DOMAIN pc : Connect(c)
    \/ \E c \in DOMAIN clients :
         Len(frames[c]) < SessionLines /\ Subscribe(c)
    \/ \E c \in DOMAIN clients :
         \E worker_name \in {WorkerName(c), <<>>} :
           Len(frames[c]) < SessionLines /\ Authorize(c, worker_name)
    \/ \E c \in DOMAIN pc : AuthorizeDifficulty(c)
    \/ \E c \in DOMAIN pc : AuthorizeNotify(c)
    \/ \E c \in DOMAIN clients, d \in SessionDifficulties :
         Len(frames[c]) < SessionLines /\ SuggestDifficulty(c, d)
    \/ \E c \in DOMAIN clients, prm \in miner_inputs, rpc \in RpcOutcomes :
         Submit(c, prm, rpc)
    \/ \E c \in DOMAIN clients :
         Len(frames[c]) < SessionLines /\ GetTransactions(c)

SpecSession == InitSession /\ [][NextSession]_vars

----------------------------------------------------------------------------
(* Version rolling and the spellings of a submission: one miner whose       *)
(* mining.submit lines carry version bits, a job id without its leading     *)
(* zeros, or another worker name                                           *)

\* job ids the run inserts
RollJobs == 1

\* mining.submit requests of the run
RollSubmits == 2

\* lines the server writes to the session
RollLines == 5

RollSessions == {1}

\* the masks the miner asks for
RollMasks == { <<"1", "f", "f", "f", "e", "0", "0", "0">> }

\* the version bits the miner sends: one bit inside the mask, one outside
RollVersions ==
    { <<"0", "0", "0", "0", "2", "0", "0", "0">>,
      <<"0", "0", "0", "0", "0", "0", "0", "4">> }

RollNonces == {1, 2}

\* the submissions of SubmitInputs, each of them also with version bits, with
\* the job id written without leading zeros, and under another worker name
RollInputs ==
    LET plain == SubmitInputs(RollSessions, {1}, RollNonces)
    IN  plain
        \cup { [prm EXCEPT !.version = Some(v)] :
                 prm \in plain, v \in RollVersions }
        \cup { [prm EXCEPT !.job_id = FormatHex(1, 1)] : prm \in plain }
        \cup { [prm EXCEPT !.worker_name = <<"w", "x">>] : prm \in plain }

InitRoll ==
    /\ InitPool
    /\ InitShares
    /\ InitBroadcast
    /\ InitShutdown
    /\ InitBuilder
    /\ InitRequests
    /\ InitClock(0)
    /\ InitMining(RollSessions)
    /\ InitSubmits(RollSubmits, RollInputs)
    /\ job_cap = RollJobs
    /\ fetch_cap = 0
    /\ InitConnections(max_connections)

NextRoll ==
    \/ PollTick
    \/ \E c \in DOMAIN clients, mask \in {None} \cup { Some(m) : m \in RollMasks } :
         Len(frames[c]) < RollLines /\ Configure(c, mask)
    \/ \E c \in DOMAIN clients, prm \in miner_inputs, rpc \in RpcOutcomes :
         Submit(c, prm, rpc)

SpecRoll == InitRoll /\ [][NextRoll]_vars

----------------------------------------------------------------------------
(* Requests and their answers: one connection whose every line is a request *)
(* with an id, followed from the request to process_message's return        *)

\* job ids the run inserts
AnswerJobs == 1

\* mining.submit requests of the run
AnswerSubmits == 1

\* lines the server writes to the session
AnswerLines == 4

AnswerSessions == {1}

NoRequest ==
    [ session |-> 0, method |-> "", responses |-> 0, returned |-> FALSE ]

InitAnswers ==
    /\ InitPool
    /\ InitShares
    /\ InitBroadcast
    /\ InitShutdown
    /\ InitBuilder
    /\ last_request = Some(NoRequest)
    /\ InitClock(0)
    /\ clients = << >>
    /\ client_order = <<>>
    /\ pc = [c \in AnswerSessions |-> "new"]
    /\ transport = [c \in AnswerSessions |-> "open"]
    /\ frames = [c \in AnswerSessions |-> <<>>]
    /\ InitSubmits(AnswerSubmits, SubmitInputs(AnswerSessions, {1}, {1}))
    /\ job_cap = AnswerJobs
    /\ fetch_cap = 0
    /\ InitConnections(max_connections)

NextAnswers ==
    \/ PollTick
    \/ \E c \in DOMAIN pc : Connect(c)
    \/ \E c \in DOMAIN clients :
         Len(frames[c]) < AnswerLines /\ Subscribe(c)
    \/ \E c \in DOMAIN clients :
         \E worker_name \in {WorkerName(c), <<>>} :
           Len(frames[c]) < AnswerLines /\ Authorize(c, worker_name)
    \/ \E c \in DOMAIN pc : AuthorizeDifficulty(c)
    \/ \E c \in DOMAIN pc : AuthorizeNotify(c)
    \/ \E c \in DOMAIN clients, d \in SessionDifficulties :
         Len(frames[c]) < AnswerLines /\ SuggestDifficulty(c, d)
    \/ \E c \in DOMAIN clients, mask \in {None} \cup { Some(m) : m \in RollMasks } :
         Len(frames[c]) < AnswerLines /\ Configure(c, mask)
    \/ \E c \in DOMAIN clients, prm \in miner_inputs, rpc \in RpcOutcomes :
         Submit(c, prm, rpc)
    \/ \E c \in DOMAIN clients :
         Len(frames[c]) < AnswerLines /\ GetTransactions(c)

SpecAnswers == InitAnswers /\ [][NextAnswers]_vars

----------------------------------------------------------------------------
(* Coinbases: the builder at the heights and clock readings where its      *)
(* numbers change length, and sessions that subscribe                      *)

CoinbaseSessions == {1, 2}

\* block heights, seconds and nanoseconds around the steps of ser_number
CoinbaseHeights == {0, 1, 255, 256, 65535, 65536, 800000}

CoinbaseTimes == {1700000000, 2000000000}

CoinbaseNsecs == {0, 1, 255, 256, 65535, 65536, 999999999}

\* the script of a P2WPKH address: OP_0 and a push of 20 bytes
CoinbaseScripts == { <<0, 20>> \o [i \in 1..20 |-> i] }

InitCoinbase ==
    /\ InitPool
    /\ InitShares
    /\ InitBroadcast
    /\ InitShutdown
    /\ InitRequests
    /\ InitClock(0)
    /\ clients = << >>
    /\ client_order = <<>>
    /\ pc = [c \in CoinbaseSessions |-> "new"]
    /\ transport = [c \in CoinbaseSessions |-> "open"]
    /\ frames = [c \in CoinbaseSessions |-> <<>>]
    /\ InitSubmits(0, {})
    /\ job_cap = 0
    /\ fetch_cap = 0
    /\ InitConnections(max_connections)
    /\ coinbase_in \in [ height : CoinbaseHeights, block_reward : {5000},
                          script_pubkey : CoinbaseScripts,
                          time : CoinbaseTimes, nsec : CoinbaseNsecs ]
    /\ coinbase_out = None

NextCoinbase ==
    \/ BuildCoinbase
    \/ \E c \in DOMAIN pc : Connect(c)
    \/ \E c \in DOMAIN clients : Subscribe(c)

SpecCoinbase == InitCoinbase /\ [][NextCoinbase]_vars

----------------------------------------------------------------------------
(* The writers of a connection: the session's task, the broadcaster and    *)
(* shutdown, on the connections of two miners                              *)

\* job ids the run inserts
WriterJobs == 1

\* lines the server writes to a session
WriterLines == 5

WriterSessions == {1, 2}

InitWriters ==
    /\ InitPool
    /\ InitShares
    /\ InitBroadcast
    /\ InitShutdown
    /\ InitBuilder
    /\ InitRequests
    /\ InitClock(0)
    /\ InitMining(WriterSessions)
    /\ InitSubmits(0, {})
    /\ job_cap = WriterJobs
    /\ fetch_cap = 0
    /\ InitConnections(max_connections)

NextWriters ==
    \/ sd_pc # "stopped" /\ PollTick
    \/ sd_pc # "stopped" /\ BroadcastLoop
    \/ sd_pc # "stopped" /\ BroadcastNext
    \/ ShutdownSignal
    \/ ShutdownNext
    \/ ShutdownStop
    \/ \E c \in DOMAIN pc :
         /\ sd_pc # "stopped"
         /\ Len(frames[c]) < WriterLines
         /\ InvalidLine(c)
    \/ \E c \in DOMAIN pc : sd_pc # "stopped" /\ PeerClose(c)
    \/ \E c \in DOMAIN pc : sd_pc # "stopped" /\ SessionEOF(c)

SpecWriters == InitWriters /\ [][NextWriters]_vars

----------------------------------------------------------------------------
(* Shutdown: connections that come and go, and the signal.  Nothing runs   *)
(* once the event loop is stopped.                                         *)

ShutdownSessions == {1, 2, 3}

InitShutdownRun ==
    /\ InitPool
    /\ InitShares
    /\ InitBroadcast
    /\ InitShutdown
    /\ InitBuilder
    /\ InitRequests
    /\ InitClock(0)
    /\ clients = << >>
    /\ client_order = <<>>
    /\ pc = [c \in ShutdownSessions |-> "new"]
    /\ transport = [c \in ShutdownSessions |-> "open"]
    /\ frames = [c \in ShutdownSessions |-> <<>>]
    /\ InitSubmits(0, {})
    /\ job_cap = 0
    /\ fetch_cap = 0
    /\ InitConnections(max_connections)

NextShutdown ==
    \/ ShutdownSignal
    \/ ShutdownNext
    \/ ShutdownStop
    \/ \E c \in DOMAIN pc : Connect(c)
    \/ \E c \in DOMAIN pc : sd_pc # "stopped" /\ PeerClose(c)
    \/ \E c \in DOMAIN pc : sd_pc # "stopped" /\ SessionEOF(c)

SpecShutdown == InitShutdownRun /\ [][NextShutdown]_vars

----------------------------------------------------------------------------
(* Properties *)

IsNotify(line) == line.method = "mining.notify"

IsSetDifficulty(line) == line.method = "mining.set_difficulty"

\* session c has been written job j's mining.notify
HasNotify(c, j) ==
    \E i \in 1..Len(frames[c]) :
       /\ IsNotify(frames[c][i])
       /\ frames[c][i].params[1] = FormatHex(j, 16)

\* C1: on every session the auth response (result true) comes before the
\* first mining.set_difficulty, and no mining.notify is written before a
\* mining.set_difficulty has been.
AuthorizeOrder ==
    \A c \in DOMAIN frames :
       \A i \in 1..Len(frames[c]) :
          /\ IsNotify(frames[c][i])
               => \E k \in 1..(i - 1) : IsSetDifficulty(frames[c][k])
          /\ IsSetDifficulty(frames[c][i])
               => \E k \in 1..(i - 1) : frames[c][k] = Response("true", 0, "")

\* C2 as stated: a submission whose five values are those of an earlier one
\* that reached the duplicate check is rejected with 'Duplicate share'.
RepeatRejectedAsDuplicate ==
    last_submit.repeat
      => ~last_submit.valid /\ last_submit.reason = "Duplicate share"

\* C2: a submission whose five values are those of an earlier one that
\* reached the duplicate check is never accepted: it is rejected with
\* 'Duplicate share' while its job is in the registry and with 'Job not
\* found' once the job is evicted; no five values are accepted twice.
RepeatNeverAccepted ==
    /\ last_submit.repeat
         => /\ ~last_submit.valid
            /\ last_submit.reason = IF last_submit.job_in_registry
                                      THEN "Duplicate share"
                                    ELSE "Job not found"
    /\ \A i, k \in 1..Len(accept_log) :
          i # k => accept_log[i] # accept_log[k]

\* a repeated submission meets its job evicted
RepeatAfterEviction ==
    /\ last_submit.repeat
    /\ ~last_submit.job_in_registry
    /\ accept_log # <<>>

\* C3: a share validate_share returns valid has its hash integer at or under
\* the pool target of the difficulty the submission was checked with, and
\* one it returns block_found for is at or under the target of the job's
\* nbits as well.
AcceptedMeetsTargets ==
    last_submit.validated
      => /\ last_submit.valid
              => LeqDigits(last_submit.h_int[1],
                           difficulty_to_target(last_submit.difficulty[1]))
         /\ last_submit.block_found
              => /\ last_submit.valid
                 /\ LeqDigits(last_submit.h_int[1],
                              bits_to_target(last_submit.job[1].nbits))

\* a share accepted at difficulty 2 that is no block
AcceptedBelowBlock ==
    /\ last_submit.valid
    /\ ~last_submit.block_found
    /\ last_submit.difficulty = Some(<<2, 1>>)

\* C4: every job inserted into the registry has an id greater than that of
\* every job inserted before it, whichever fetch inserted it.
JobIdsIncrease ==
    \A i, k \in 1..Len(insert_log) : i < k => insert_log[i] < insert_log[k]

\* two jobs were inserted, and the first was written to a session
TwoJobsInserted ==
    /\ Len(insert_log) >= 2
    /\ \E c \in DOMAIN frames : HasNotify(c, 1)

\* C5: the registry holds at most 20 jobs, they are the most recently
\* inserted ones in insertion order, and the newest inserted job is the one
\* get_current_job returns.
RegistryKeepsNewest ==
    LET n == Len(insert_log)
        kept == IF n > 20 THEN 20 ELSE n
    IN  /\ Len(jobs) = kept
        /\ \A i \in 1..kept : jobs[i].job_id = insert_log[n - kept + i]
        /\ n > 0 => CurrentJobOf(PoolState) = Some(jobs[kept])
        /\ n > 0 => jobs[kept].job_id = insert_log[n]

\* the registry has evicted its two oldest jobs
RegistryEvicted == Len(insert_log) = 22 /\ jobs[1].job_id = 3

\* C6: no inserted job is skipped.  The broadcaster and the authorize dialog
\* send only the newest job of the registry, and job ids increase, so a job
\* under the one the broadcaster sent last is never sent again: by then it
\* has been written to every session that was authorized when it was
\* inserted and has stayed connected.
NoJobSkipped ==
    \A j \in DOMAIN owed :
       (last_job_id # None /\ last_job_id[1] > j /\ bc_pc = "loop")
         => \A c \in owed[j] : HasNotify(c, j)

\* C7: when a broadcast is over, every session that was authorized when it
\* began and has stayed connected has been written the job's mining.notify.
BroadcastReachesAll ==
    (bc_pc = "loop" /\ last_job_id # None)
      => \A c \in bc_targets : HasNotify(c, last_job_id[1])

\* C8: an accepted share that meets the network target makes one submitblock
\* call to the node.
BlockSubmittedOnce ==
    (last_submit.valid /\ last_submit.block_found)
      => submitblock_calls = last_submit.calls_before + 1

\* C9: a block-found share appends an entry to the submitted-blocks record.
BlockRecorded ==
    last_submit.block_found
      => Len(submitted_blocks) = last_submit.records_before + 1

\* C10: a share whose block submission failed is answered result true and
\* is counted in the worker's accepted shares and blocks found and in the
\* pool's blocks found.
FailedBlockStillCounts ==
    (last_submit.block_found
     /\ last_submit.block_submit \in {"keyerror", "rpc_failed"})
      => /\ last_submit.valid
         /\ last_submit.answer = Some(Response("true", 0, ""))
         /\ worker_stats[last_submit.tuple[1]].shares
              = last_submit.shares_before + 1
         /\ worker_stats[last_submit.tuple[1]].blocks_found
              = last_submit.worker_blocks_before + 1
         /\ blocks_found = last_submit.blocks_before + 1

\* a block was found and its submission failed
BlockSubmissionFailed ==
    /\ last_submit.block_found
    /\ last_submit.block_submit = "keyerror"
    /\ submitted_blocks = <<>>

\* the value of a short hexadecimal text
RECURSIVE HexValue(_)
HexValue(s) ==
    IF s = <<>> THEN 0
    ELSE 16 * HexValue(SubSeq(s, 1, Len(s) - 1)) + NibbleOf(s[Len(s)])

\* the jobs of the registry, as the last mining.submit met it, that carry the
\* submitted job id
SubmittedJobs ==
    { i \in 1..Len(last_submit.registry) :
        FormatHex(last_submit.registry[i].job_id, 16) = last_submit.tuple[2] }

\* the seconds between the submitted ntime and the ntime of the job
SubmittedTimeOff ==
    LET job == last_submit.registry[CHOOSE i \in SubmittedJobs : TRUE]
        d == HexValue(last_submit.tuple[4]) - job.ntime
    IN  IF d < 0 THEN 0 - d ELSE d

\* the reason of the first check the last mining.submit fails, "" if none
FirstFailedCheck ==
    IF ~IsHexText(last_submit.tuple[2]) THEN "Invalid job ID format"
    ELSE IF SubmittedJobs = {} THEN "Job not found"
    ELSE IF SubmittedTimeOff > 600 THEN "Time out of range"
    ELSE IF last_submit.key_seen THEN "Duplicate share"
    ELSE IF /\ last_submit.h_int # None
            /\ ~LeqDigits(last_submit.h_int[1],
                          difficulty_to_target(last_submit.difficulty[1]))
      THEN "Share above target"
    ELSE ""

\* C11: validate_share checks the job id's format, the job's presence, the
\* time window, the duplicate and the pool target in this order: a rejected
\* submission carries the reason of the first check it fails, one that fails
\* none is accepted, and one rejected at the first three checks leaves the
\* submitted-share set as it was.
ChecksInOrder ==
    last_submit.validated
      => /\ last_submit.reason = FirstFailedCheck
         /\ last_submit.valid <=> FirstFailedCheck = ""
         /\ last_submit.reason \in {"Invalid job ID format", "Job not found",
                                    "Time out of range"}
              => submitted_shares = last_submit.keys_before

\* a submission of an unknown job with a stale ntime, made while the registry
\* holds a job, is rejected for the job
UnknownJobBeforeTime ==
    /\ last_submit.validated
    /\ last_submit.tuple[2] = UnknownJobId
    /\ last_submit.tuple[4] = FormatHex(NodeTemplate(100).curtime + 601, 8)
    /\ last_submit.registry # <<>>
    /\ last_submit.reason = "Job not found"

\* C12: a submission whose job is found is rejected with 'Time out of range'
\* exactly when its ntime is more than 600 seconds off the job's: 600 off
\* passes the time check, 601 off does not.
TimeWindow ==
    (last_submit.validated /\ IsHexText(last_submit.tuple[2])
     /\ SubmittedJobs # {})
      => (last_submit.reason = "Time out of range"
            <=> SubmittedTimeOff > 600)

\* a submission 600 seconds behind its job passed the time check
TimeWindowEdge ==
    /\ last_submit.validated
    /\ IsHexText(last_submit.tuple[2])
    /\ SubmittedJobs # {}
    /\ last_submit.tuple[4] = FormatHex(NodeTemplate(100).curtime - 600, 8)
    /\ SubmittedTimeOff = 600
    /\ last_submit.reason # "Time out of range"

\* the rejected counter of worker w in the worker statistics ws
RejectedOf(ws, w) == IF w \in DOMAIN ws THEN ws[w].rejected ELSE 0

\* C13: a share rejected by validation (job not found, time out of range,
\* duplicate, share above target) adds one to the rejected counter of the
\* submitting worker, and the session stays open.
RejectedCounted ==
    (last_submit.validated
     /\ last_submit.reason \in {"Job not found", "Time out of range",
                                "Duplicate share", "Share above target"})
      => /\ RejectedOf(worker_stats, last_submit.tuple[1])
              = RejectedOf(last_submit.stats_before, last_submit.tuple[1]) + 1
         /\ pc[last_submit.session] = "read"

RECURSIVE SumBlocks(_, _)
\* the blocks_found of the workers of ws added up
SumBlocks(stats, ws) ==
    IF ws = {} THEN 0
    ELSE LET w == CHOOSE x \in ws : TRUE
         IN  stats[w].blocks_found + SumBlocks(stats, ws \ {w})

\* the worker_stats entry of w, all zero while w has none
StatsOf(stats, w) ==
    IF w \in DOMAIN stats THEN stats[w]
    ELSE [ shares |-> 0, rejected |-> 0, last_share |-> 0,
           blocks_found |-> 0, bitcoin_address |-> <<>> ]

\* C14: an accepted share adds exactly one to its worker's share counter and
\* sets the worker's last-share time to the time of the submission; when it
\* is a block the worker's and the pool's blocks_found grow by one, else
\* they stay; no other worker's entry changes.  In every state a worker's
\* blocks_found is at most its shares and the pool's blocks_found is the sum
\* of the workers' blocks_found.
AcceptedShareCounted ==
    /\ \A w \in DOMAIN worker_stats :
          worker_stats[w].blocks_found <= worker_stats[w].shares
    /\ blocks_found = SumBlocks(worker_stats, DOMAIN worker_stats)
    /\ last_submit.valid =>
          LET w == last_submit.tuple[1]
              before == StatsOf(last_submit.stats_before, w)
              found == IF last_submit.block_found THEN 1 ELSE 0
          IN  /\ w \in DOMAIN worker_stats
              /\ worker_stats[w].shares = before.shares + 1
              /\ worker_stats[w].last_share = last_submit.time
              /\ worker_stats[w].blocks_found = before.blocks_found + found
              /\ blocks_found = last_submit.blocks_before + found
              /\ \A o \in DOMAIN worker_stats \ {w} :
                    /\ o \in DOMAIN last_submit.stats_before
                    /\ worker_stats[o] = last_submit.stats_before[o]

\* both workers hold accepted shares, the pool has found a block, and the
\* last share, accepted after the clock moved, is none
TwoWorkersCounted ==
    /\ Cardinality(DOMAIN worker_stats) = 2
    /\ blocks_found = 1
    /\ last_submit.valid
    /\ ~last_submit.block_found
    /\ last_submit.time > 0

TooManyConnections == Response("", 503, "Too many connections")

\* C15: the session table never holds more than max_connections sessions; a
\* connection that arrives while the table holds max_connections sessions is
\* written the one frame with error 503 "Too many connections", is closed
\* and is not added to the table, then or later; any other connection is
\* added.
ConnectionsBounded ==
    /\ [](/\ Cardinality(DOMAIN clients) <= connection_limit
          /\ \A c \in DOMAIN pc :
                pc[c] = "refused" =>
                  /\ frames[c] = <<TooManyConnections>>
                  /\ transport[c] = "closed"
                  /\ c \notin DOMAIN clients)
    /\ [][\A c \in DOMAIN pc :
            (pc[c] = "new" /\ pc'[c] # "new") =>
              IF Cardinality(DOMAIN clients) = connection_limit
                THEN /\ pc'[c] = "refused"
                     /\ frames'[c] = <<TooManyConnections>>
                     /\ clients' = clients
              ELSE /\ c \in DOMAIN clients'
                   /\ frames'[c] = <<>>]_vars

\* a connection was refused while the table is full
RefusedAtLimit ==
    /\ Cardinality(DOMAIN clients) = connection_limit
    /\ \E c \in DOMAIN pc : pc[c] = "refused"

\* C16: a session's last_activity is the time its latest line was read (the
\* time of its accept before the first line); a sweep closes, of the
\* sessions whose connection is open, exactly those that were silent for
\* more than 300 seconds, and nothing but a sweep closes a session of the
\* table.
IdleSweep ==
    /\ [](\A c \in DOMAIN clients :
            clients[c].last_activity = clients[c].heard)
    /\ [][\A c \in DOMAIN clients :
            IF next_sweep' # next_sweep
              THEN transport[c] = "open" =>
                     (transport'[c] = "closed"
                        <=> now - clients[c].heard > inactive_timeout)
            ELSE transport'[c] = "closed" => transport[c] = "closed"]_vars

\* the sweep at 360 seconds closed a session silent for 301 seconds and
\* spared one silent for 300 seconds, each heard after its accept
SweepAtTheEdge ==
    /\ now = 6 * sweep_interval
    /\ next_sweep = 7 * sweep_interval
    /\ \E a, b \in DOMAIN clients :
          /\ clients[a].heard = sweep_interval - 1
          /\ transport[a] = "closed"
          /\ clients[b].heard = sweep_interval
          /\ transport[b] = "open"

\* C17: the slots held of the semaphore are the connections being served,
\* which are the sessions of the table; a session whose connection the peer
\* left or the reaper closed is in the end removed from the table, its slot
\* released.
SessionsRemoved ==
    /\ [](/\ connection_limit - connection_semaphore = Cardinality(Served)
          /\ Served = DOMAIN clients
          /\ Cardinality(Served) < connection_limit
                => ~locked(connection_semaphore))
    /\ \A c \in ConnSessions :
          (c \in DOMAIN clients /\ transport[c] # "open")
            ~> (c \notin DOMAIN clients /\ pc[c] = "gone")

\* a miner left, the reaper closed another session, both are gone, and a
\* connection that came after the sweep is served
SlotsReleased ==
    \E a, b, c \in DOMAIN pc :
       /\ pc[a] = "gone" /\ transport[a] = "lost"
       /\ pc[b] = "gone" /\ transport[b] = "closed"
       /\ c \in DOMAIN clients
       /\ clients[c].last_activity > inactive_timeout

\* the clean_jobs parameter of a mining.notify
CleanJobsOf(line) == line.params[9]

\* C18: every mining.notify written for a job that update_block_template
\* created because the template's height differed from the current one (it
\* creates no other job) carries clean_jobs true.
CleanJobsOnHeightChange ==
    \A c \in DOMAIN frames :
       \A i \in 1..Len(frames[c]) :
          IsNotify(frames[c][i]) =>
            \A k \in 1..Len(jobs) :
               ( /\ frames[c][i].params[1] = FormatHex(jobs[k].job_id, 16)
                 /\ jobs[k].clean_jobs )
                 => CleanJobsOf(frames[c][i])

\* what get_current_job returns when the pool holds h
CurrentJobHeld(h) == IF h[3] # <<>> THEN Some(Last(h[3])) ELSE None

\* C19: a fetch that the node answered with an error, with an empty result
\* or not at all left the template, the job id counter and the registry as
\* they were, so get_current_job returns the job it returned before; the
\* poll loop has not ended: its next tick fetches again.
FailedFetchKeepsPool ==
    /\ \A i \in 1..Len(fetch_log) :
          fetch_log[i].kind # "result" =>
            /\ fetch_log[i].after = fetch_log[i].before
            /\ CurrentJobHeld(fetch_log[i].after)
                 = CurrentJobHeld(fetch_log[i].before)
    /\ current_job_id < job_cap => ENABLED PollTick

\* the node answered with an error and the call raised while the pool held
\* a job, and the next tick of the poll loop brought the next job
FetchedAfterFailures ==
    /\ Len(fetch_log) = 4
    /\ \A i \in 2..3 : fetch_log[i].before[3] # <<>>
    /\ { fetch_log[i].kind : i \in 2..3 } = {"error", "raise"}
    /\ fetch_log[4].kind = "result"
    /\ fetch_log[4].caller = "poll"
    /\ Len(fetch_log[4].after[3]) = 2

\* C20: the calls of update_block_template run one after the other, whoever
\* makes them: each call finds the template, the counter and the registry
\* as the call before it left them, a call that stores a template adds one
\* to the counter and appends the one job with that id, and no job of the
\* registry is built from a template of the height of the job before it.
FetchesSerial ==
    /\ \A i \in 1..Len(fetch_log) :
          LET before == fetch_log[i].before
              after == fetch_log[i].after
          IN  /\ i > 1 => before = fetch_log[i - 1].after
              /\ after[1] # before[1] =>
                    /\ after[2] = before[2] + 1
                    /\ Len(after[3]) = Len(before[3]) + 1
                    /\ Last(after[3]).job_id = after[2]
                    /\ Last(after[3]).template = after[1][1]
              /\ after[1] = before[1] => after = before
    /\ \A k \in 1..Len(jobs) - 1 :
          /\ jobs[k + 1].job_id = jobs[k].job_id + 1
          /\ jobs[k + 1].template.height # jobs[k].template.height

\* the broadcaster's fetch failed, the session's fetch stored the first
\* template, and a loop of the pool has since stored the next
CallersFetchedInTurn ==
    /\ Len(fetch_log) = 2
    /\ fetch_log[1].caller = "broadcast"
    /\ fetch_log[1].kind # "result"
    /\ fetch_log[2].caller = "session"
    /\ fetch_log[2].after[1] # fetch_log[2].before[1]
    /\ Len(jobs) = 2

\* session c has been written the server.shutdown notification
HasShutdownNotice(c) ==
    \E i \in 1..Len(frames[c]) : frames[c][i] = ShutdownNotice

\* C21: after the signal no connection is accepted; shutdown does not end
\* before it has stopped the event loop, and when it has, every session that
\* was connected when it began and whose miner has stayed has been written
\* server.shutdown and its connection is closed.
ShutdownCompletes ==
    /\ sd_pc # "raised"
    /\ sd_pc # "off" => ~accepting
    /\ sd_pc = "stopped" =>
          \A c \in sd_targets :
             transport[c] # "lost" =>
               /\ HasShutdownNotice(c)
               /\ transport[c] = "closed"

\* a step that handles a mining.submit of session c
SubmitStep(c) ==
    /\ submit_budget' # submit_budget
    /\ last_submit'.session = c

\* C22: a mining.submit on a session that has not authorized is answered
\* with error code 24 and changes nothing: the share set, the counters and
\* the block records stay as they were, validate_share is not called, and
\* the session stays connected and open.
UnauthorizedSubmitRefused ==
    [][\A c \in DOMAIN clients :
         SubmitStep(c) /\ ~clients[c].authorized
           => /\ frames'[c] = Append(frames[c], Response("", 24, "Unauthorized worker"))
              /\ ~last_submit'.validated
              /\ UNCHANGED shareVars
              /\ UNCHANGED accept_log
              /\ c \in DOMAIN clients'
              /\ clients'[c].authorized = clients[c].authorized
              /\ pc'[c] = "read"
              /\ transport'[c] = "open"]_vars

\* an unauthorized session's mining.submit has been answered
UnauthorizedSubmitAnswered ==
    /\ last_submit.session \in DOMAIN clients
    /\ ~clients[last_submit.session].authorized
    /\ last_submit.answer = Some(Response("", 24, "Unauthorized worker"))
    /\ jobs # <<>>

\* C23: a session is authorized only after it has subscribed, so every
\* authorized session has an extranonce1.
AuthorizedFromSubscribed ==
    \A c \in DOMAIN clients :
       clients[c].authorized
         => clients[c].subscribed /\ clients[c].extranonce1 # None

\* C24: suggestions being accepted, a mining.submit of a session that has
\* suggested a difficulty is validated against the difficulty it suggested
\* last, whether it suggested before or after it authorized.
SuggestedDifficultyUsed ==
    accept_suggested_difficulty /\ last_submit.validated
                                /\ last_submit.suggested # None
      => last_submit.difficulty = last_submit.suggested

\* C25: the answer to mining.get_transactions lists the transactions of the
\* latest job's template: it is not empty when the template has transactions.
TransactionsListed ==
    last_transactions # None /\ last_transactions[1].job # None
      => last_transactions[1].result
           = last_transactions[1].job[1].template.transactions

\* the least k with 2^k >= n
RECURSIVE CeilLog2(_)
CeilLog2(n) == IF n <= 1 THEN 0 ELSE 1 + CeilLog2((n + 1) \div 2)

\* C26: the branch list of a job whose template has N transactions has
\* ceil(log2(N + 1)) entries.
BranchCount ==
    \A i \in 1..Len(jobs) :
       Len(jobs[i].merkle_branches)
         = CeilLog2(Len(jobs[i].template.transactions) + 1)

\* the hash of a coinbase of job
CoinbaseHash(job) ==
    double_sha256(Cat(Cat(job.coinbase1, <<"extranonces">>), job.coinbase2))

\* C27: folding a job's branches onto the coinbase hash gives the root of
\* the tree whose leaves are the coinbase hash and then the template's
\* transaction ids in order.
FoldIsTreeRoot ==
    \A i \in 1..Len(jobs) :
       LET job == jobs[i]
           txs == job.template.transactions
       IN  <<MerkleFold(CoinbaseHash(job), job.merkle_branches)>>
             = MerkleLevels(<<CoinbaseHash(job)>>
                            \o [k \in 1..Len(txs) |-> Rev(txs[k])])

\* extranonce2_size of the mining.subscribe answer
extranonce2_size == 4

\* the place of the first 0xFFFFFFFF in the bytes b from place k on, counted
\* from 0; Len(b) if there is none
RECURSIVE SequenceAt(_, _)
SequenceAt(b, k) ==
    IF k + 4 > Len(b) THEN Len(b)
    ELSE IF \A i \in 1..4 : b[k + i] = 255 THEN k
    ELSE SequenceAt(b, k + 1)

\* C28: for a coinbase the builder made and a session that has subscribed,
\* the script length byte of coinbase1 is the number of bytes between it and
\* the sequence field of the input in coinbase1, extranonce1, an extranonce2
\* of extranonce2_size bytes, and coinbase2.
ScriptLengthExact ==
    \A c \in DOMAIN clients :
       coinbase_out # None /\ clients[c].extranonce1 # None
         => LET coinbase1 == coinbase_out[1].coinbase1
                coinbase2 == coinbase_out[1].coinbase2
                tx == coinbase1 \o fromhex(clients[c].extranonce1[1])[1]
                        \o Zeros(extranonce2_size) \o coinbase2
                script_len_pos == Len(scriptsig_header) - 1
            IN  coinbase1[script_len_pos + 1]
                  = SequenceAt(tx, script_len_pos + 1) - script_len_pos - 1

\* C29: the extranonce1 of a session that has subscribed and an extranonce2
\* of extranonce2_size bytes have together the number of bytes the builder
\* writes as the extranonce length into the coinbase script (8).
ExtranonceLength ==
    \A c \in DOMAIN clients :
       clients[c].extranonce1 # None
         => Len(fromhex(clients[c].extranonce1[1])[1]) + extranonce2_size
              = enonce1varlen + enonce2varlen

\* every write to a connection handed it one whole line
WholeLines ==
    \A c \in DOMAIN frames :
       \A i \in 1..Len(frames[c]) : frames[c][i].end = "\n"

\* a step leaves what was written to connection c, or adds whole lines
\* after it (the model forgets the lines of a connection the miner has left)
LinesAppended(c) ==
    \/ frames'[c] = <<>>
    \/ /\ Len(frames'[c]) >= Len(frames[c])
       /\ SubSeq(frames'[c], 1, Len(frames[c])) = frames[c]

\* C30: whichever of the session's task, the broadcaster and shutdown write
\* to a connection, what the connection has been handed is a sequence of
\* whole newline-terminated lines, and a write adds its line after the lines
\* written before it.
FramesSerialized ==
    /\ []WholeLines
    /\ [][\A c \in DOMAIN frames : LinesAppended(c)]_vars

\* a session has been written a job by the broadcaster, then an answer by
\* its own task, then the notice by shutdown, which is suspended in its drain
ThreeWriters ==
    \E c \in DOMAIN frames :
       \E i, j, k \in 1..Len(frames[c]) :
          /\ i < j /\ j < k
          /\ frames[c][i].method = "mining.notify"
          /\ frames[c][j] = Response("", 20, "Invalid JSON")
          /\ frames[c][k] = ShutdownNotice
          /\ sd_pc = "iter"
          /\ sd_at = Some(c)

\* the node answered fetch e with a template, and the pool held none or one
\* of another height
FreshTemplate(e) ==
    /\ e.kind = "result"
    /\ \/ e.before[1] = None
       \/ e.template[1].height # e.before[1][1].height

BlockIffNetworkTarget ==
    (last_submit.validated /\ last_submit.h_int # None)
      => LET met == LeqDigits(last_submit.h_int[1],
                              bits_to_target(last_submit.job[1].nbits))
         IN  /\ last_submit.block_found <=> met
             /\ last_submit.block_submit # "none" <=> met

\* the least number of bytes that hold n >= 1
RECURSIVE MinBytes(_)
MinBytes(n) == IF n < 256 THEN 1 ELSE 1 + MinBytes(n \div 256)

\* C33: the bytes ser_number gives for the height, which coinbase1 carries
\* after its header, are the single byte 0 for height 0, and else a length
\* byte and after it that many bytes, as few as hold the height, the least
\* significant first.
SerNumberMinimal ==
    coinbase_out # None
      => LET n == coinbase_in.height
             b == ser_number(n)
             at == Len(scriptsig_header)
         IN  /\ SubSeq(coinbase_out[1].coinbase1, at + 1, at + Len(b)) = b
             /\ IF n = 0 THEN b = <<0>>
                ELSE /\ b[1] = Len(b) - 1
                     /\ b[1] = MinBytes(n)
                     /\ Tail(b) = pack(n, b[1])

\* the masks session answers to mining.configure have told: none (no bit)
\* and those of the version-rolling answers among the lines fs
Negotiated(fs) ==
    {<<>>} \cup { int16(fs[i].params)[1] :
                    i \in { k \in 1..Len(fs) : fs[k].result = "version-rolling" } }

\* C34: the version a mining.submit is hashed with has, next to the bits of
\* the job's version, only bits of a mask the session has negotiated with
\* mining.configure; with no negotiation it is the job's version.
RolledWithinMask ==
    (last_submit.validated /\ last_submit.version # None)
      => \E m \in Negotiated(frames[last_submit.session]) :
            LET allowed == OrDigits(IntDigits(last_submit.job[1].version, 16), m)
            IN  OrDigits(last_submit.version[1], allowed) = allowed

\* C35: once process_message has returned from a request that carries an
\* id, the session has been written exactly one response more than before
\* the request, whatever the method and its parameters.
EveryRequestAnswered ==
    (/\ last_request # None
     /\ last_request[1].returned
     /\ last_request[1].session \in DOMAIN clients)
      => ResponsesIn(frames[last_request[1].session])
            = last_request[1].responses + 1

\* C36: a mining.submit rejected as a duplicate share says of the work what
\* an earlier submission that passed the duplicate check said: the same
\* worker name, job id, extranonce2, ntime and nonce, from a session with the
\* same extranonce1, with the same version bits.
DuplicateOnlySameWork ==
    (last_submit.validated /\ last_submit.reason = "Duplicate share")
      => last_submit.work[1] \in last_submit.described

\* C37: no two accepted submissions of one session decode to the same
\* header inputs: the same job id as a number, the same extranonce2, ntime
\* and nonce bytes, and the same hashed version.
HeaderAcceptedOnce ==
    \A i, j \in 1..Len(last_submit.accepted) :
       i < j => last_submit.accepted[i] # last_submit.accepted[j]

\* C38: whenever the pool holds a template, the newest job of the registry
\* was built from that template.
NewestJobFromCurrentTemplate ==
    current_block # None
      => /\ jobs # <<>>
         /\ Last(jobs).template = current_block[1]

\* C39: after every fetch the node answered with a template, the newest
\* job's prevhash is the previousblockhash of that template; a template at
\* the height held whose previous block is another one gives a new job.
NewestJobOnFetchedTip ==
    \A i \in 1..Len(fetch_log) :
       LET e == fetch_log[i]
       IN  (e.kind = "result" /\ e.after[3] # <<>>)
             => Last(e.after[3]).prevhash = e.template[1].previousblockhash

\* the parameter of the latest mining.set_difficulty among the lines fs, the
\* configured difficulty when there is none
ToldDifficulty(fs) ==
    LET ks == { k \in 1..Len(fs) : fs[k].method = "mining.set_difficulty" }
    IN  IF ks = {} THEN default_difficulty
        ELSE fs[CHOOSE k \in ks : \A j \in ks : j <= k].params[1]

\* C40: the difficulty process_message hands to validate_share with a
\* mining.submit is the parameter of the latest mining.set_difficulty written
\* to the session before it, or the configured difficulty if none was.
ValidatedAgainstTold ==
    [][\A c \in DOMAIN clients :
         SubmitStep(c) /\ last_submit'.validated
           => last_submit'.difficulty = Some(ToldDifficulty(frames[c]))]_vars

\* a share was validated against a difficulty the miner suggested after it
\* authorized, the one it was told last
SubmitAfterSuggestion ==
    /\ last_submit.validated
    /\ last_submit.session \in DOMAIN clients
    /\ last_submit.suggested = Some(<<2, 1>>)
    /\ last_submit.difficulty = Some(<<2, 1>>)
    /\ ToldDifficulty(frames[last_submit.session]) = <<2, 1>>

====
